---- MODULE Spec2Model ----
(***************************************************************************)
(* Model of the Nutrition-Agent core: the tiered nutrition lookup          *)
(* (tools/nutrition_query_tool.py, tools/usda_food_search_tool.py,         *)
(* nutrition_database.py) and the file-backed user memory store            *)
(* (user_memory.py).                                                       *)
(*                                                                         *)
(* Python values are modelled as follows.  A str is a sequence of letters  *)
(* (so that lower() and the substring test `in` are computed, not          *)
(* assumed).  A dict is a function whose DOMAIN is its key set.  A         *)
(* formatted answer is a record naming the return statement's template     *)
(* and the values interpolated into it.  An operation that can raise       *)
(* returns Val(v) or Exc(e).                                               *)
(***************************************************************************)
EXTENDS Integers, Sequences, FiniteSets, TLC

----------------------------------------------------------------------------
(* Bounds of the model *)

MaxNameLen == 2     \* longest query string
MaxRows == 2        \* most rows in the CSV table

----------------------------------------------------------------------------
(* Python values *)

None == [kind |-> "None"]
Val(v) == [kind |-> "Value", val |-> v]
Exc(e) == [kind |-> "Exception", exc |-> e]

\* Outcome of one try-block of a handler: it returned v, it fell through to
\* the code after the block, or an exception left the handler.
Return(v) == [kind |-> "Return", val |-> v]
FallThrough == [kind |-> "FallThrough"]

Letters == {"a", "A", "b"}

Strings(n) == UNION {[1..k -> Letters] : k \in 0..n}

\* str.lower()
lower(s) == [i \in 1..Len(s) |-> IF s[i] = "A" THEN "a" ELSE s[i]]

\* Python's `needle in hay` on strings
contains(needle, hay) ==
    \E i \in 0..(Len(hay) - Len(needle)) :
        \A j \in 1..Len(needle) : hay[i + j] = needle[j]

\* the image of a sequence
Range(s) == {s[i] : i \in 1..Len(s)}

\* all orderings of the indices 1..n
Permutations_(n) == {p \in [1..n -> 1..n] : \A i, j \in 1..n : p[i] = p[j] => i = j}

\* s[:k]
Take(s, k) == SubSeq(s, 1, IF Len(s) < k THEN Len(s) ELSE k)

----------------------------------------------------------------------------
(* nutrition_database.py: the structured table and the semantic index *)

NutrientColumns ==
    <<"calories", "protein", "carbs", "fat", "fiber", "vitamin_c", "calcium", "iron">>

AllColumns == {"food_name", "category"} \cup Range(NutrientColumns)

FoodRecord(name, cal, prot, carbs, fat, fiber, vc, ca, fe, cat) ==
    [food_name |-> name, calories |-> cal, protein |-> prot, carbs |-> carbs,
     fat |-> fat, fiber |-> fiber, vitamin_c |-> vc, calcium |-> ca, iron |-> fe,
     category |-> cat]

\* Rows a CSV may hold (nutrient values in tenths of the unit): two foods
\* that share a name.
FoodPool ==
    { FoodRecord(<<"A">>, 520, 3, 140, 2, 24, 46, 60, 1, "fruit"),
      FoodRecord(<<"A">>, 950, 5, 250, 3, 44, 57, 70, 2, "fruit") }

\* _create_sample_data: the built-in seed table (its first rows)
SampleRows ==
    << FoodRecord(<<"A">>, 520, 3, 140, 2, 24, 46, 60, 1, "fruit"),
       FoodRecord(<<"b">>, 1650, 310, 0, 36, 0, 0, 150, 10, "meat"),
       FoodRecord(<<"a", "b">>, 890, 11, 230, 3, 26, 87, 50, 3, "fruit"),
       FoodRecord(<<"b", "b">>, 1300, 27, 280, 3, 4, 0, 100, 2, "grain") >>

_create_sample_data == [columns |-> AllColumns, rows |-> SampleRows]

Project(rec, cols) == [c \in cols |-> rec[c]]

\* The column sets a CSV on disk may have: complete, or lacking one column.
ColumnSets ==
    { AllColumns, AllColumns \ {"iron"}, AllColumns \ {"food_name"} }

\* tables of up to MaxRows rows, no row twice
RowSeqs ==
    UNION {{r \in [1..k -> FoodPool] : \A i, j \in 1..k : r[i] = r[j] => i = j} :
              k \in 0..MaxRows}

CsvFiles ==
    { [kind |-> "absent"], [kind |-> "corrupt"] } \cup
    { [kind |-> "table", columns |-> cs,
       rows |-> [i \in 1..Len(r) |-> Project(r[i], cs)]] : cs \in ColumnSets, r \in RowSeqs }

\* The persisted index directory: no index file, a zero-length file, a file
\* FAISS cannot load, or a loadable index with its docstore metadata (built
\* from an earlier CSV: names that differ in case from a query or contain one
\* another).
DiskIndexes ==
    { [kind |-> "absent"], [kind |-> "empty"], [kind |-> "corrupt"],
      [kind |-> "index",
       docs |-> << FoodRecord(<<"A">>, 520, 3, 140, 2, 24, 46, 60, 1, "fruit"),
                   FoodRecord(<<"a", "b">>, 890, 11, 230, 3, 26, 87, 50, 3, "fruit"),
                   FoodRecord(<<"A">>, 950, 5, 250, 3, 44, 57, 70, 2, "fruit") >>] }

\* a built or loaded vector store: its docstore's metadata, in index order
FAISS(docs) == [kind |-> "FAISS", docs |-> docs]

\* _create_vector_db: render one document per row (a KeyError on a missing
\* column leaves the method), then embed and index inside the try block; any
\* failure there (provider error, or no rows: vectors.shape[1] fails) is
\* swallowed and vector_store keeps its previous value.
\* _create_vector_db installing the store before the vectors are computed
_create_vector_db_store_first(nutrition_data, vector_store, embed_ok) ==
    IF nutrition_data.rows # <<>> /\ nutrition_data.columns # AllColumns
    THEN Exc("KeyError")
    ELSE IF nutrition_data.rows # <<>>
         THEN Val(FAISS(nutrition_data.rows))
         ELSE Val(vector_store)

_create_vector_db(nutrition_data, vector_store, embed_ok) ==
    IF nutrition_data.rows # <<>> /\ nutrition_data.columns # AllColumns
    THEN Exc("KeyError")
    ELSE IF embed_ok /\ nutrition_data.rows # <<>>
         THEN Val(FAISS(nutrition_data.rows))
         ELSE Val(vector_store)

_load_or_create_vector_db(nutrition_data, disk_index, embed_ok) ==
    IF disk_index.kind = "index"
    THEN Val(FAISS(disk_index.docs))
    ELSE _create_vector_db(nutrition_data, None, embed_ok)

\* NutritionDatabase.__init__ / _load_data
_load_data(csv, disk_index, embed_ok) ==
    LET data == IF csv.kind = "table"
                THEN [columns |-> csv.columns, rows |-> csv.rows]
                ELSE _create_sample_data
        first == IF csv.kind = "corrupt"
                 THEN Exc("ParserError")
                 ELSE _load_or_create_vector_db(data, disk_index, embed_ok)
        again == _create_vector_db(_create_sample_data, None, embed_ok)
    IN  IF first.kind = "Exception"
        THEN [nutrition_data |-> _create_sample_data, vector_store |-> again.val]
        ELSE [nutrition_data |-> data, vector_store |-> first.val]

\* get_nutrition_by_name: first row whose food_name equals the query exactly
get_nutrition_by_name(nutrition_data, food_name) ==
    IF "food_name" \notin nutrition_data.columns
    THEN Exc("KeyError")
    ELSE LET hits == {i \in 1..Len(nutrition_data.rows) :
                         nutrition_data.rows[i].food_name = food_name}
         IN  IF hits = {}
             THEN None
             ELSE Val(nutrition_data.rows[CHOOSE i \in hits : \A j \in hits : i <= j])

\* The embedding provider's answer to one similarity search: the documents
\* ranked by distance (any order: distances are the provider's), or an error.
Rankings(vector_store) ==
    IF vector_store = None
    THEN {[kind |-> "unused"]}
    ELSE {[kind |-> "error"]} \cup
         {[kind |-> "ranked", order |-> p] : p \in Permutations_(Len(vector_store.docs))}

\* search_nutrition: metadata of the top_k nearest documents
search_nutrition(vector_store, ranking, top_k) ==
    IF vector_store = None
    THEN <<>>
    ELSE IF ranking.kind = "error"
         THEN <<>>
         ELSE Take([i \in 1..Len(vector_store.docs) |->
                       vector_store.docs[ranking.order[i]]], top_k)

----------------------------------------------------------------------------
(* tools/usda_food_search_tool.py: the authoritative tier *)

\* JSON scalars of a provider payload
Num(v) == [t |-> "num", v |-> v]
Null == [t |-> "null"]
Str(s) == [t |-> "str", s |-> s]

\* NUTRIENTS_OF_INTEREST: nutrient id -> name
NUTRIENTS_OF_INTEREST ==
    [id \in {1003, 1004, 1005, 1008, 1079, 1062, 1087, 1089, 1110, 1162, 1109} |->
        CASE id = 1003 -> "protein"
          [] id = 1004 -> "total_fat"
          [] id = 1005 -> "carbohydrate"
          [] id = 1008 -> "energy"
          [] id = 1079 -> "fiber"
          [] id = 1062 -> "sugar"
          [] id = 1087 -> "calcium"
          [] id = 1089 -> "iron"
          [] id = 1110 -> "vitamin_d"
          [] id = 1162 -> "vitamin_c"
          [] id = 1109 -> "vitamin_b12"]

\* a dict kept in insertion order: a sequence of [key, value] with unique keys
DictHas(d, k) == \E i \in 1..Len(d) : d[i].key = k

DictGet(d, k, default) ==
    IF DictHas(d, k) THEN d[CHOOSE i \in 1..Len(d) : d[i].key = k].value ELSE default

DictSet(d, k, v) ==
    IF DictHas(d, k)
    THEN [i \in 1..Len(d) |-> IF d[i].key = k THEN [key |-> k, value |-> v] ELSE d[i]]
    ELSE Append(d, [key |-> k, value |-> v])

\* the loop over foodNutrients: nutrient.get("value", 0.0), float(value)
RECURSIVE CollectNutrients(_, _)
CollectNutrients(nutrients, nutrient_values) ==
    IF nutrients = <<>>
    THEN Val(nutrient_values)
    ELSE LET nutrient == Head(nutrients)
         IN  IF nutrient.nutrientId \in DOMAIN NUTRIENTS_OF_INTEREST
             THEN LET value == IF "value" \in DOMAIN nutrient THEN nutrient.value ELSE Num(0)
                  IN  IF value.t # "num"
                      THEN Exc("TypeError")
                      ELSE CollectNutrients(Tail(nutrients),
                               DictSet(nutrient_values,
                                       NUTRIENTS_OF_INTEREST[nutrient.nutrientId], value.v))
             ELSE CollectNutrients(Tail(nutrients), nutrient_values)

\* Payloads the authoritative source may answer with.
UsdaFood(description, nutrients) == [description |-> description, foodNutrients |-> nutrients]

UsdaNutrient(id, v) == [nutrientId |-> id, value |-> v]

UsdaPayloads ==
    { [totalHits |-> 0, foods |-> <<>>],
      [totalHits |-> 2,
       foods |-> << UsdaFood(<<"a">>, << UsdaNutrient(1008, Num(520)), UsdaNutrient(1003, Num(3)),
                                         UsdaNutrient(1079, Num(24)), UsdaNutrient(1087, Num(60)),
                                         UsdaNutrient(1051, Num(856)) >>),
                    UsdaFood(<<"a", "b">>, << UsdaNutrient(1008, Num(890)) >>) >>],
      [totalHits |-> 1, foods |-> << UsdaFood(<<"b">>, <<>>) >>],
      [totalHits |-> 1,
       foods |-> << UsdaFood(<<"b">>, << UsdaNutrient(1008, Null) >>) >>] }

\* What one GET to the authoritative source produces.
UsdaResponses ==
    { [kind |-> "network_error"], [kind |-> "http_error"] } \cup
    { [kind |-> "json", data |-> d] : d \in UsdaPayloads }

\* _search_food_nutrition_structured: None or {"food_name", "nutrients"}
_search_food_nutrition_structured(api_key, response) ==
    IF ~api_key
    THEN None
    ELSE IF response.kind # "json"
         THEN None
         ELSE LET data == response.data
              IN  IF "foods" \notin DOMAIN data \/ data.foods = <<>>
                  THEN None
                  ELSE LET food_item == data.foods[1]
                           nutrient_values == CollectNutrients(food_item.foodNutrients, <<>>)
                       IN  IF nutrient_values.kind = "Exception"
                           THEN None
                           ELSE Val([food_name |-> food_item.description,
                                     nutrients |-> nutrient_values.val])

----------------------------------------------------------------------------
(* tools/nutrition_query_tool.py: the formatters *)

Line(label, value, unit) == [label |-> label, value |-> value, unit |-> unit]

\* _format_local_nutrition_info: info[...] raises KeyError on a missing key
_format_local_nutrition_info(info, detailed) ==
    LET needed == {"food_name", "calories", "protein", "carbs", "fat"} \cup
                  (IF detailed THEN {"fiber", "vitamin_c", "calcium", "iron"} ELSE {})
    IN  IF ~(needed \subseteq DOMAIN info)
        THEN Exc("KeyError")
        ELSE Val([tmpl |-> "nutrition_info", source |-> "local",
                  food_name |-> info.food_name,
                  basic |-> << Line("calories", info.calories, "kcal"),
                               Line("protein", info.protein, "g"),
                               Line("carbs", info.carbs, "g"),
                               Line("fat", info.fat, "g") >>,
                  details |-> IF detailed
                              THEN << Line("fiber", info.fiber, "g"),
                                      Line("vitamin_c", info.vitamin_c, "mg"),
                                      Line("calcium", info.calcium, "mg"),
                                      Line("iron", info.iron, "mg") >>
                              ELSE <<>>,
                  items |-> <<>>])

\* nutrient_mapping of _format_usda_nutrition_info: name -> (label, unit)
nutrient_mapping ==
    [n \in {"energy", "protein", "total_fat", "carbohydrate", "fiber", "sugar", "calcium",
            "iron", "vitamin_c", "vitamin_d", "vitamin_b12"} |->
        CASE n = "energy" -> <<"energy", "kcal">>
          [] n = "protein" -> <<"protein", "g">>
          [] n = "total_fat" -> <<"fat", "g">>
          [] n = "carbohydrate" -> <<"carbohydrate", "g">>
          [] n = "fiber" -> <<"dietary_fiber", "g">>
          [] n = "sugar" -> <<"sugar", "g">>
          [] n = "calcium" -> <<"calcium", "mg">>
          [] n = "iron" -> <<"iron", "mg">>
          [] n = "vitamin_c" -> <<"vitamin_c", "mg">>
          [] n = "vitamin_d" -> <<"vitamin_d", "ug">>
          [] n = "vitamin_b12" -> <<"vitamin_b12", "ug">>]

base_nutrients == <<"energy", "protein", "carbohydrate", "total_fat">>

MappingOf(en_name) ==
    IF en_name \in DOMAIN nutrient_mapping THEN nutrient_mapping[en_name] ELSE <<en_name, "g">>

\* the two loops of the detailed section over nutrients.items()
RECURSIVE UsdaDetailLines(_, _)
UsdaDetailLines(nutrients, second_loop) ==
    IF nutrients = <<>>
    THEN <<>>
    ELSE LET en_name == Head(nutrients).key
             value == Head(nutrients).value
             shown ==
                 IF second_loop
                 THEN en_name \notin DOMAIN nutrient_mapping
                 ELSE /\ en_name \notin Range(base_nutrients)
                      /\ en_name \notin {nutrient_mapping[n][1] : n \in DOMAIN nutrient_mapping}
             line == IF second_loop
                     THEN Line(en_name, value, "g")
                     ELSE Line(MappingOf(en_name)[1], value, MappingOf(en_name)[2])
         IN  (IF shown THEN <<line>> ELSE <<>>) \o UsdaDetailLines(Tail(nutrients), second_loop)

\* _format_usda_nutrition_info
_format_usda_nutrition_info(usda_data, detailed) ==
    LET nutrients == usda_data.nutrients
    IN  Val([tmpl |-> "nutrition_info", source |-> "usda",
             food_name |-> usda_data.food_name,
             basic |-> [i \in 1..Len(base_nutrients) |->
                           Line(MappingOf(base_nutrients[i])[1],
                                DictGet(nutrients, base_nutrients[i], 0),
                                MappingOf(base_nutrients[i])[2])],
             details |-> IF detailed
                         THEN UsdaDetailLines(nutrients, FALSE) \o
                              UsdaDetailLines(nutrients, TRUE)
                         ELSE <<>>,
             items |-> <<>>])

\* Items the secondary source may answer with: food.get(key, default)
NixGet(food, key, default) == IF key \in DOMAIN food THEN food[key] ELSE default

RECURSIVE NixSum(_, _)
NixSum(foods, key) ==
    IF foods = <<>> THEN Val(0)
    ELSE LET v == NixGet(Head(foods), key, Num(0))
             rest == NixSum(Tail(foods), key)
         IN  IF v.t # "num" \/ rest.kind = "Exception"
             THEN Exc("TypeError")
             ELSE Val(v.v + rest.val)

\* one f-string "{value:.2f}": a TypeError unless the value is a number
NixLines(food) ==
    LET keys == <<"nf_calories", "nf_protein", "nf_total_carbohydrate", "nf_total_fat">>
        labels == <<"calories", "protein", "carbohydrate", "fat">>
        units == <<"kcal", "g", "g", "g">>
    IN  IF \E i \in 1..4 : NixGet(food, keys[i], Num(0)).t # "num"
        THEN Exc("TypeError")
        ELSE Val([i \in 1..4 |-> Line(labels[i], NixGet(food, keys[i], Num(0)).v, units[i])])

NixItemLine(food) ==
    [serving_qty |-> NixGet(food, "serving_qty", Str(<<>>)),
     food_name |-> NixGet(food, "food_name", <<>>),
     calories |-> NixGet(food, "nf_calories", Num(0))]

\* _format_api_nutrition_info
_format_api_nutrition_info(api_data) ==
    LET foods == api_data.foods
    IN  IF Len(foods) = 1
        THEN LET lines == NixLines(foods[1])
             IN  IF lines.kind = "Exception"
                 THEN lines
                 ELSE Val([tmpl |-> "nutrition_info", source |-> "nutritionix",
                           food_name |-> NixGet(foods[1], "food_name", <<"?">>),
                           basic |-> lines.val, details |-> <<>>, items |-> <<>>])
        ELSE LET keys == <<"nf_calories", "nf_protein", "nf_total_carbohydrate", "nf_total_fat">>
                 labels == <<"calories", "protein", "carbohydrate", "fat">>
                 units == <<"kcal", "g", "g", "g">>
                 totals == [i \in 1..4 |-> NixSum(foods, keys[i])]
             IN  IF \E i \in 1..4 : totals[i].kind = "Exception"
                 THEN Exc("TypeError")
                 ELSE Val([tmpl |-> "nutrition_info", source |-> "nutritionix_compound",
                           food_name |-> <<>>,
                           basic |-> [i \in 1..4 |-> Line(labels[i], totals[i].val, units[i])],
                           details |-> <<>>,
                           items |-> [i \in 1..Len(foods) |-> NixItemLine(foods[i])]])

----------------------------------------------------------------------------
(* tools/nutrition_query_tool.py: NutritionQueryTool._run *)

NixItem(name, qty, cal, prot, carb, fat) ==
    [food_name |-> name, serving_qty |-> Num(qty), nf_calories |-> cal, nf_protein |-> prot,
     nf_total_carbohydrate |-> carb, nf_total_fat |-> fat]

NixPayloads ==
    { [message |-> "no match"],
      [foods |-> << NixItem(<<"a">>, 1, Num(950), Num(5), Num(250), Num(3)) >>],
      [foods |-> << NixItem(<<"a">>, 1, Num(950), Num(5), Num(250), Num(3)),
                    [food_name |-> <<"b">>, serving_qty |-> Num(2), nf_calories |-> Num(1550)] >>],
      [foods |-> << NixItem(<<"b">>, 1, Null, Num(5), Num(250), Num(3)) >>] }

\* What one POST to the secondary source produces.
NixResponses ==
    { [kind |-> "timeout"], [kind |-> "connection_error"],
      [kind |-> "http_error", status_code |-> 401, text |-> "unauthorized"] } \cup
    { [kind |-> "json", data |-> d] : d \in NixPayloads }

\* the answers of the return statements that report a failure
NoKeyMessage(food_name) == [tmpl |-> "no_nutritionix_key", food_name |-> food_name]
AllMissedMessage(food_name) == [tmpl |-> "all_sources_missed", food_name |-> food_name]
TimeoutMessage == [tmpl |-> "api_timeout"]
HttpErrorMessage(status_code, text) ==
    [tmpl |-> "api_http_error", status_code |-> status_code, text |-> text]
UnknownErrorMessage(e) == [tmpl |-> "api_unknown_error", error |-> e]

\* usda_step with a failed lookup reported to the caller instead of passed on
usda_step_reporting(food_name, detailed, api_key, usda_response) ==
    LET usda_data == _search_food_nutrition_structured(api_key, usda_response)
    IN  IF usda_data # None
        THEN LET r == _format_usda_nutrition_info(usda_data.val, detailed)
             IN  IF r.kind = "Exception" THEN FallThrough ELSE Return(r.val)
        ELSE Return(UnknownErrorMessage("usda"))

\* step 0 (lines 47-56): the authoritative tier inside try/except Exception
usda_step(food_name, detailed, api_key, usda_response) ==
    LET usda_data == _search_food_nutrition_structured(api_key, usda_response)
    IN  IF usda_data # None
        THEN LET r == _format_usda_nutrition_info(usda_data.val, detailed)
             IN  IF r.kind = "Exception" THEN FallThrough ELSE Return(r.val)
        ELSE FallThrough

\* acceptable without the lower-casing
acceptable_case_sensitive(result, food_name) ==
    \/ result.food_name = food_name
    \/ contains(food_name, result.food_name)
    \/ contains(result.food_name, food_name)

\* the acceptance test of a search result (lines 72-76)
acceptable(result, food_name) ==
    \/ lower(result.food_name) = lower(food_name)
    \/ contains(lower(food_name), lower(result.food_name))
    \/ contains(lower(result.food_name), lower(food_name))

SimilarFoodsMessage(food_name, names) ==
    [tmpl |-> "similar_foods", food_name |-> food_name, similar_foods |-> names]

\* semantic_step that suggests only the nearest candidate
semantic_step_one_suggestion(food_name, detailed, search_results) ==
    LET ok == {i \in 1..Len(search_results) : acceptable(search_results[i], food_name)}
    IN  IF search_results = <<>> THEN FallThrough
        ELSE IF ok # {}
        THEN LET first == CHOOSE i \in ok : \A j \in ok : i <= j
                 r == _format_local_nutrition_info(search_results[first], detailed)
             IN  IF r.kind = "Exception" THEN FallThrough ELSE Return(r.val)
        ELSE Return(SimilarFoodsMessage(food_name, <<search_results[1].food_name>>))

\* semantic_step that answers NotFound itself when the search returns nothing
semantic_step_final(food_name, detailed, search_results) ==
    LET ok == {i \in 1..Len(search_results) : acceptable(search_results[i], food_name)}
    IN  IF search_results = <<>> THEN Return(AllMissedMessage(food_name))
        ELSE IF ok # {}
        THEN LET first == CHOOSE i \in ok : \A j \in ok : i <= j
                 r == _format_local_nutrition_info(search_results[first], detailed)
             IN  IF r.kind = "Exception" THEN FallThrough ELSE Return(r.val)
        ELSE Return(SimilarFoodsMessage(food_name,
                        [i \in 1..Len(search_results) |-> search_results[i].food_name]))

\* lines 69-83: the first acceptable search result is the answer; with
\* results of which none is acceptable their names are suggested; with no
\* result the try block is left without a return
semantic_step(food_name, detailed, search_results) ==
    LET ok == {i \in 1..Len(search_results) : acceptable(search_results[i], food_name)}
    IN  IF search_results = <<>> THEN FallThrough
        ELSE IF ok # {}
        THEN LET first == CHOOSE i \in ok : \A j \in ok : i <= j
                 r == _format_local_nutrition_info(search_results[first], detailed)
             IN  IF r.kind = "Exception" THEN FallThrough ELSE Return(r.val)
        ELSE Return(SimilarFoodsMessage(food_name,
                        [i \in 1..Len(search_results) |-> search_results[i].food_name]))

\* step 1 (lines 59-87): exact match, then semantic search, inside one
\* try/except Exception.  searched: search_nutrition was called.
local_step(food_name, detailed, database, ranking) ==
    LET nutrition_info == get_nutrition_by_name(database.nutrition_data, food_name)
    IN  IF nutrition_info.kind = "Exception"
        THEN [res |-> FallThrough, searched |-> FALSE]
        ELSE IF nutrition_info # None
        THEN LET r == _format_local_nutrition_info(nutrition_info.val, detailed)
             IN  [res |-> IF r.kind = "Exception" THEN FallThrough ELSE Return(r.val),
                  searched |-> FALSE]
        ELSE [res |-> semantic_step(food_name, detailed,
                          search_nutrition(database.vector_store, ranking, 3)),
              searched |-> TRUE]

\* secondary_step with the request outside the try block
secondary_step_uncaught(food_name, nutritionix_keys, nix_response) ==
    IF ~nutritionix_keys
    THEN [res |-> Return(NoKeyMessage(food_name)), posted |-> FALSE]
    ELSE [posted |-> TRUE,
          res |->
            CASE nix_response.kind = "timeout" -> Exc("Timeout")
              [] nix_response.kind = "http_error" -> Exc("HTTPError")
              [] nix_response.kind = "connection_error" -> Exc("ConnectionError")
              [] nix_response.kind = "json" ->
                    LET api_data == nix_response.data
                    IN  IF "foods" \in DOMAIN api_data /\ api_data.foods # <<>>
                        THEN LET r == _format_api_nutrition_info(api_data)
                             IN  IF r.kind = "Exception" THEN r ELSE Return(r.val)
                        ELSE Return(AllMissedMessage(food_name))]

\* secondary_step with one except clause for every failure
secondary_step_one_handler(food_name, nutritionix_keys, nix_response) ==
    IF ~nutritionix_keys
    THEN [res |-> Return(NoKeyMessage(food_name)), posted |-> FALSE]
    ELSE [posted |-> TRUE,
          res |->
            CASE nix_response.kind = "timeout" -> Return(UnknownErrorMessage("Timeout"))
              [] nix_response.kind = "http_error" ->
                    Return(UnknownErrorMessage("HTTPError"))
              [] nix_response.kind = "connection_error" ->
                    Return(UnknownErrorMessage("ConnectionError"))
              [] nix_response.kind = "json" ->
                    LET api_data == nix_response.data
                    IN  IF "foods" \in DOMAIN api_data /\ api_data.foods # <<>>
                        THEN LET r == _format_api_nutrition_info(api_data)
                             IN  IF r.kind = "Exception"
                                 THEN Return(UnknownErrorMessage(r.exc))
                                 ELSE Return(r.val)
                        ELSE Return(AllMissedMessage(food_name))]

\* step 2 (lines 92-118): the secondary tier.  posted: requests.post was called.
secondary_step(food_name, nutritionix_keys, nix_response) ==
    IF ~nutritionix_keys
    THEN [res |-> Return(NoKeyMessage(food_name)), posted |-> FALSE]
    ELSE [posted |-> TRUE,
          res |->
            CASE nix_response.kind = "timeout" -> Return(TimeoutMessage)
              [] nix_response.kind = "http_error" ->
                    Return(HttpErrorMessage(nix_response.status_code, nix_response.text))
              [] nix_response.kind = "connection_error" ->
                    Return(UnknownErrorMessage("ConnectionError"))
              [] nix_response.kind = "json" ->
                    LET api_data == nix_response.data
                    IN  IF "foods" \in DOMAIN api_data /\ api_data.foods # <<>>
                        THEN LET r == _format_api_nutrition_info(api_data)
                             IN  IF r.kind = "Exception"
                                 THEN Return(UnknownErrorMessage(r.exc))
                                 ELSE Return(r.val)
                        ELSE Return(AllMissedMessage(food_name))]

Unused == [kind |-> "unused"]

\* NutritionQueryTool._run.  The result records what the call returned (or
\* raised), the tiers it consulted in order, and the provider answers it
\* actually received.
_run(food_name, detailed, config, database, usda_response, ranking, nix_response) ==
    LET s0 == usda_step(food_name, detailed, config.USDA_API_KEY, usda_response)
        s1 == local_step(food_name, detailed, database, ranking)
        s2 == secondary_step(food_name, config.NUTRITIONIX_KEYS, nix_response)
        base == [kind |-> "call", food_name |-> food_name, detailed |-> detailed,
                 usda_response |-> IF config.USDA_API_KEY THEN usda_response ELSE Unused,
                 ranking |-> Unused, nix_response |-> Unused,
                 posted |-> FALSE, ret |-> s0, trace |-> <<"usda">>]
        local == [base EXCEPT !.ret = s1.res,
                              !.ranking = IF s1.searched /\ database.vector_store # None
                                          THEN ranking ELSE Unused,
                              !.trace = <<"usda", "exact">> \o
                                        (IF s1.searched THEN <<"semantic">> ELSE <<>>)]
    IN  IF s0.kind # "FallThrough"
        THEN base
        ELSE IF s1.res.kind # "FallThrough"
        THEN local
        ELSE [local EXCEPT !.ret = s2.res,
                           !.nix_response = IF s2.posted THEN nix_response ELSE Unused,
                           !.posted = s2.posted,
                           !.trace = local.trace \o <<"secondary">>]

----------------------------------------------------------------------------
(* user_memory.py: the per-user JSON files and the pydantic models *)

MaxClock == 3          \* last clock tick at which a handler may run
MaxDate == 2           \* calendar days a daily-log entry may be filed under
TicksPerSecond == 2    \* clock ticks per second of wall time
SecondsPerDay == 2     \* seconds per calendar day
RecursionLimit == 3    \* nested calls the interpreter allows before RecursionError

List(items) == [t |-> "list", items |-> items]

\* datetime.now().isoformat(): seconds, then the fraction unless it is zero;
\* the strings compare as the instants do
isoformat(now) ==
    IF now % TicksPerSecond = 0
    THEN Str(<<now \div TicksPerSecond>>)
    ELSE Str(<<now \div TicksPerSecond, now % TicksPerSecond>>)

\* lexicographic str comparison a < b of two isoformat() strings
IsoLess(a, b) ==
    \/ a.s[1] < b.s[1]
    \/ /\ a.s[1] = b.s[1]
       /\ \/ Len(a.s) < Len(b.s)
          \/ Len(a.s) = 2 /\ Len(b.s) = 2 /\ a.s[2] < b.s[2]

\* now.strftime('%Y%m%d_%H%M%S'): the fraction of the second is dropped
strftime_seconds(now) == now \div TicksPerSecond

\* now.strftime("%Y-%m-%d")
strftime_date(now) == (now \div TicksPerSecond) \div SecondsPerDay

setdefault(d, k, v) == IF k \in DOMAIN d THEN d ELSE d @@ (k :> v)

HasType(d, k, t) == k \in DOMAIN d /\ d[k].t = t

OptionalType(d, k, t) == k \notin DOMAIN d \/ d[k].t \in {t, "null"}

ValidationError == Exc("ValidationError")

\* class DailyLogEntry(BaseModel)
DailyLogEntry(data) ==
    IF /\ HasType(data, "food_name", "str")
       /\ HasType(data, "amount", "num")
       /\ HasType(data, "unit", "str")
       /\ \A k \in {"calories", "protein", "carbs", "fat"} : OptionalType(data, k, "num")
    THEN Val([k \in {"food_name", "amount", "unit", "calories", "protein", "carbs", "fat"} |->
                 IF k \in DOMAIN data THEN data[k] ELSE Null])
    ELSE ValidationError

\* class DailyLog(BaseModel)
DailyLog(data) ==
    IF /\ "date" \in DOMAIN data
       /\ "entries" \in DOMAIN data =>
              \A i \in 1..Len(data.entries) : DailyLogEntry(data.entries[i]).kind = "Value"
    THEN Val([date |-> data.date,
              entries |-> IF "entries" \in DOMAIN data
                          THEN [i \in 1..Len(data.entries) |-> DailyLogEntry(data.entries[i]).val]
                          ELSE <<>>])
    ELSE ValidationError

\* class Goal(BaseModel)
Goal(data) ==
    IF /\ \A k \in {"goal_id", "description", "unit", "start_date", "target_date"} :
              HasType(data, k, "str")
       /\ HasType(data, "target_value", "num")
       /\ "status" \in DOMAIN data => data.status.t = "str"
    THEN Val([k \in {"goal_id", "description", "target_value", "unit", "start_date",
                     "target_date", "status"} |->
                 IF k \in DOMAIN data THEN data[k] ELSE Str("active")])
    ELSE ValidationError

StrFields ==
    {"user_id", "name", "gender", "activity_level", "health_goal",
     "dietary_restrictions", "preferences", "created_at", "updated_at"}

NumFields == {"age", "height", "weight"}

ListFields == {"consultations", "daily_logs", "goals"}

\* class UserProfile(BaseModel): keys the model does not declare are dropped
UserProfile(data) ==
    IF /\ \A k \in StrFields : HasType(data, k, "str")
       /\ \A k \in NumFields : HasType(data, k, "num")
       /\ \A k \in ListFields : k \in DOMAIN data => data[k].t = "list"
       /\ "daily_logs" \in DOMAIN data =>
              \A i \in 1..Len(data.daily_logs.items) :
                  DailyLog(data.daily_logs.items[i]).kind = "Value"
       /\ "goals" \in DOMAIN data =>
              \A i \in 1..Len(data.goals.items) : Goal(data.goals.items[i]).kind = "Value"
    THEN Val([k \in StrFields \cup NumFields \cup ListFields |->
                 IF k \notin DOMAIN data THEN List(<<>>)
                 ELSE IF k = "daily_logs"
                 THEN List([i \in 1..Len(data[k].items) |-> DailyLog(data[k].items[i]).val])
                 ELSE IF k = "goals"
                 THEN List([i \in 1..Len(data[k].items) |-> Goal(data[k].items[i]).val])
                 ELSE data[k]])
    ELSE ValidationError

\* class ConsultationRecord(BaseModel)
ConsultationRecord(data) ==
    IF \A k \in {"consultation_id", "user_id", "date", "question", "answer", "category",
                 "created_at"} : HasType(data, k, "str")
    THEN Val(data)
    ELSE ValidationError

\* The file <user_id>.json under profiles_path
Absent == [kind |-> "absent"]
Garbage == [kind |-> "garbage"]          \* bytes json.load rejects
JsonFile(data) == [kind |-> "json", data |-> data]

\* get_user_profile that hands the parsed document back without validating it
get_user_profile_unvalidated(file, now) ==
    IF file.kind = "absent" THEN None
    ELSE IF file.kind = "garbage" THEN None
    ELSE Val(setdefault(
               setdefault(
                 setdefault(
                   setdefault(
                     setdefault(file.data, "consultations", List(<<>>)),
                     "created_at", isoformat(now)),
                   "updated_at", isoformat(now)),
                 "daily_logs", List(<<>>)),
               "goals", List(<<>>)))

\* get_user_profile that validates the document as it was read
get_user_profile_strict(file, now) ==
    IF file.kind = "absent" THEN None
    ELSE IF file.kind = "garbage" THEN None
    ELSE IF /\ {"created_at", "updated_at"} \subseteq DOMAIN file.data
            /\ UserProfile(file.data).kind = "Value"
    THEN UserProfile(file.data)
    ELSE None

\* UserMemory.get_user_profile: the profile, or None
get_user_profile(file, now) ==
    IF file.kind = "absent" THEN None
    ELSE IF file.kind = "garbage" THEN None
    ELSE LET now_iso == isoformat(now)
             user_data ==
                 setdefault(
                   setdefault(
                     setdefault(
                       setdefault(
                         setdefault(file.data, "consultations", List(<<>>)),
                         "created_at", now_iso),
                       "updated_at", now_iso),
                     "daily_logs", List(<<>>)),
                   "goals", List(<<>>))
         IN  IF UserProfile(user_data).kind = "Value" THEN UserProfile(user_data) ELSE None

\* UserMemory._save_user_profile: the file holds json.dump(profile.dict());
\* the file system is taken to accept the write
_save_user_profile(profile) == [ret |-> TRUE, file |-> JsonFile(profile)]

\* kwargs.get(key, default)
kwargs_get(kwargs, key, default) == DictGet(kwargs, key, default)

Outcome(ret, file) == [ret |-> ret, file |-> file]

\* create_user_profile that writes a fresh record over an existing file
create_user_profile_overwriting(file, user_id, kwargs, now, depth) ==
    LET profile_data ==
            [user_id |-> Str(user_id),
             name |-> kwargs_get(kwargs, "name", Str(user_id)),
             age |-> kwargs_get(kwargs, "age", Num(30)),
             gender |-> kwargs_get(kwargs, "gender", Str("unknown")),
             height |-> kwargs_get(kwargs, "height", Num(170)),
             weight |-> kwargs_get(kwargs, "weight", Num(65)),
             activity_level |-> kwargs_get(kwargs, "activity_level", Str("light")),
             health_goal |-> kwargs_get(kwargs, "health_goal", Str("maintain")),
             dietary_restrictions |->
                 kwargs_get(kwargs, "dietary_restrictions", Str("none")),
             preferences |-> kwargs_get(kwargs, "preferences", Str("none")),
             created_at |-> isoformat(now),
             updated_at |-> isoformat(now),
             consultations |-> List(<<>>),
             daily_logs |-> List(<<>>),
             goals |-> List(<<>>)]
        profile == UserProfile(profile_data)
    IN  IF profile.kind = "Exception" THEN Outcome(Val(FALSE), file)
        ELSE Outcome(Val(TRUE), JsonFile(profile.val))

RECURSIVE create_user_profile(_, _, _, _, _)
RECURSIVE update_user_profile(_, _, _, _, _)

\* update_user_profile that stamps updated_at before it merges the keywords
update_user_profile_caller_stamp(file, user_id, kwargs, now, depth) ==
    IF depth > RecursionLimit THEN Outcome(Exc("RecursionError"), file)
    ELSE LET profile == get_user_profile(file, now)
         IN  IF profile = None
             THEN create_user_profile(file, user_id, kwargs, now, depth + 1)
             ELSE LET update_data ==
                          [key \in DOMAIN profile.val |->
                              IF DictHas(kwargs, key) THEN DictGet(kwargs, key, None)
                              ELSE IF key = "updated_at" THEN isoformat(now)
                              ELSE profile.val[key]]
                      updated_profile == UserProfile(update_data)
                  IN  IF updated_profile.kind = "Exception" THEN Outcome(Val(FALSE), file)
                      ELSE Outcome(Val(TRUE), JsonFile(updated_profile.val))

\* update_user_profile that merges every keyword and writes the merged
\* dictionary itself
update_user_profile_storing_all(file, user_id, kwargs, now, depth) ==
    IF depth > RecursionLimit THEN Outcome(Exc("RecursionError"), file)
    ELSE LET profile == get_user_profile(file, now)
         IN  IF profile = None
             THEN create_user_profile(file, user_id, kwargs, now, depth + 1)
             ELSE LET update_data ==
                          [key \in DOMAIN profile.val \cup
                                   {kwargs[i].key : i \in 1..Len(kwargs)} |->
                              IF key = "updated_at" THEN isoformat(now)
                              ELSE IF DictHas(kwargs, key)
                              THEN DictGet(kwargs, key, None)
                              ELSE profile.val[key]]
                  IN  IF UserProfile(update_data).kind = "Exception"
                      THEN Outcome(Val(FALSE), file)
                      ELSE Outcome(Val(TRUE), JsonFile(update_data))

\* UserMemory.create_user_profile(user_id, **kwargs); depth counts the frames
\* of the create/update delegation
create_user_profile(file, user_id, kwargs, now, depth) ==
    IF depth > RecursionLimit THEN Outcome(Exc("RecursionError"), file)
    ELSE IF file.kind # "absent"
    THEN update_user_profile(file, user_id, kwargs, now, depth + 1)
    ELSE LET profile_data ==
                 [user_id |-> Str(user_id),
                  name |-> kwargs_get(kwargs, "name", Str(user_id)),
                  age |-> kwargs_get(kwargs, "age", Num(30)),
                  gender |-> kwargs_get(kwargs, "gender", Str("unknown")),
                  height |-> kwargs_get(kwargs, "height", Num(170)),
                  weight |-> kwargs_get(kwargs, "weight", Num(65)),
                  activity_level |-> kwargs_get(kwargs, "activity_level", Str("light")),
                  health_goal |-> kwargs_get(kwargs, "health_goal", Str("maintain")),
                  dietary_restrictions |->
                      kwargs_get(kwargs, "dietary_restrictions", Str("none")),
                  preferences |-> kwargs_get(kwargs, "preferences", Str("none")),
                  created_at |-> isoformat(now),
                  updated_at |-> isoformat(now),
                  consultations |-> List(<<>>),
                  daily_logs |-> List(<<>>),
                  goals |-> List(<<>>)]
             profile == UserProfile(profile_data)
         IN  IF profile.kind = "Exception" THEN Outcome(Val(FALSE), file)
             ELSE Outcome(Val(_save_user_profile(profile.val).ret),
                          _save_user_profile(profile.val).file)

\* UserMemory.update_user_profile(user_id, **kwargs)
update_user_profile(file, user_id, kwargs, now, depth) ==
    IF depth > RecursionLimit THEN Outcome(Exc("RecursionError"), file)
    ELSE LET profile == get_user_profile(file, now)
         IN  IF profile = None
             THEN create_user_profile(file, user_id, kwargs, now, depth + 1)
             ELSE LET update_data ==
                          [key \in DOMAIN profile.val |->
                              IF key = "updated_at" THEN isoformat(now)
                              ELSE IF DictHas(kwargs, key)
                              THEN DictGet(kwargs, key, None)
                              ELSE profile.val[key]]
                      updated_profile == UserProfile(update_data)
                  IN  IF updated_profile.kind = "Exception" THEN Outcome(Val(FALSE), file)
                      ELSE Outcome(Val(_save_user_profile(updated_profile.val).ret),
                                   _save_user_profile(updated_profile.val).file)

\* add_consultation_record that provisions a default profile for an unknown user
add_consultation_record_provisioning(file, user_id, question, answer, category, now) ==
    LET provisioned == IF get_user_profile(file, now) = None
                       THEN create_user_profile(file, user_id, <<>>, now, 1).file
                       ELSE file
        profile == get_user_profile(provisioned, now)
    IN  IF profile = None THEN Outcome(Val(FALSE), provisioned)
        ELSE LET record_data ==
                     [consultation_id |->
                          Str([user_id |-> user_id, stamp |-> strftime_seconds(now)]),
                      user_id |-> Str(user_id),
                      date |-> Str(<<strftime_date(now)>>),
                      question |-> question,
                      answer |-> answer,
                      category |-> category,
                      created_at |-> isoformat(now)]
                 record == ConsultationRecord(record_data)
             IN  IF record.kind = "Exception" THEN Outcome(Val(FALSE), provisioned)
                 ELSE Outcome(Val(TRUE),
                              JsonFile([profile.val EXCEPT
                                           !.consultations =
                                               List(Append(@.items, record.val)),
                                           !.updated_at = isoformat(now)]))

\* UserMemory.add_consultation_record(user_id, question, answer, category)
add_consultation_record(file, user_id, question, answer, category, now) ==
    LET profile == get_user_profile(file, now)
    IN  IF profile = None THEN Outcome(Val(FALSE), file)
        ELSE LET record_data ==
                     [consultation_id |->
                          Str([user_id |-> user_id, stamp |-> strftime_seconds(now)]),
                      user_id |-> Str(user_id),
                      date |-> Str(<<strftime_date(now)>>),
                      question |-> question,
                      answer |-> answer,
                      category |-> category,
                      created_at |-> isoformat(now)]
                 record == ConsultationRecord(record_data)
             IN  IF record.kind = "Exception" THEN Outcome(Val(FALSE), file)
                 ELSE LET saved == [profile.val EXCEPT
                                       !.consultations =
                                           List(Append(@.items, record.val)),
                                       !.updated_at = isoformat(now)]
                      IN  Outcome(Val(_save_user_profile(saved).ret),
                                  _save_user_profile(saved).file)

\* list.sort(key=lambda x: x.date): stable insertion of the log appended last
RECURSIVE SortedInsert(_, _)
SortedInsert(logs, new_log) ==
    IF logs = <<>> THEN <<new_log>>
    ELSE IF logs[Len(logs)].date <= new_log.date THEN Append(logs, new_log)
    ELSE Append(SortedInsert(SubSeq(logs, 1, Len(logs) - 1), new_log), logs[Len(logs)])

\* list.sort(key=lambda x: x.date) of a whole list (stable)
RECURSIVE SortByDate(_)
SortByDate(logs) ==
    IF logs = <<>> THEN <<>>
    ELSE SortedInsert(SortByDate(SubSeq(logs, 1, Len(logs) - 1)), logs[Len(logs)])

\* _get_or_create_daily_log that never looks for the date's log
_get_or_create_daily_log_always_new(daily_logs, date_str) ==
    LET sorted == SortByDate(Append(daily_logs, DailyLog([date |-> date_str]).val))
    IN  [daily_logs |-> sorted,
         index |-> CHOOSE i \in 1..Len(sorted) :
                       /\ sorted[i].date = date_str
                       /\ \A j \in (i + 1)..Len(sorted) : sorted[j].date # date_str]

\* UserMemory._get_or_create_daily_log: the profile's logs afterwards, and the
\* position of the log that is returned
_get_or_create_daily_log(daily_logs, date_str) ==
    IF \E i \in 1..Len(daily_logs) : daily_logs[i].date = date_str
    THEN [daily_logs |-> daily_logs,
          index |-> CHOOSE i \in 1..Len(daily_logs) :
                        /\ daily_logs[i].date = date_str
                        /\ \A j \in 1..(i - 1) : daily_logs[j].date # date_str]
    ELSE LET new_log == DailyLog([date |-> date_str]).val
             sorted == SortByDate(Append(daily_logs, new_log))
         IN  [daily_logs |-> sorted,
              index |-> CHOOSE i \in 1..Len(sorted) : sorted[i].date = date_str]

\* UserMemory.add_daily_log_entry(user_id, date_str, food_entry_data)
add_daily_log_entry(file, user_id, date_str, food_entry_data, now) ==
    LET profile == get_user_profile(file, now)
    IN  IF profile = None THEN Outcome(Val(FALSE), file)
        ELSE LET food_entry == DailyLogEntry(food_entry_data)
             IN  IF food_entry.kind = "Exception" THEN Outcome(Val(FALSE), file)
                 ELSE LET got == _get_or_create_daily_log(profile.val.daily_logs.items,
                                                          date_str)
                          saved == [profile.val EXCEPT
                                       !.daily_logs =
                                           List([got.daily_logs EXCEPT
                                                    ![got.index].entries =
                                                        Append(@, food_entry.val)]),
                                       !.updated_at = isoformat(now)]
                      IN  Outcome(Val(_save_user_profile(saved).ret),
                                  _save_user_profile(saved).file)

\* the filter with the end of the period excluded
RECURSIVE FilterLogs_end_excluded(_, _, _)
FilterLogs_end_excluded(logs, start_date_str, end_date_str) ==
    IF logs = <<>> THEN <<>>
    ELSE LET rest == FilterLogs_end_excluded(Tail(logs), start_date_str, end_date_str)
         IN  IF start_date_str <= Head(logs).date /\ Head(logs).date < end_date_str
             THEN <<Head(logs)>> \o rest
             ELSE rest

RECURSIVE FilterLogs(_, _, _)
FilterLogs(logs, start_date_str, end_date_str) ==
    IF logs = <<>> THEN <<>>
    ELSE LET rest == FilterLogs(Tail(logs), start_date_str, end_date_str)
         IN  IF start_date_str <= Head(logs).date /\ Head(logs).date <= end_date_str
             THEN <<Head(logs)>> \o rest
             ELSE rest

\* UserMemory.get_daily_logs_for_period(user_id, start_date_str, end_date_str)
get_daily_logs_for_period(file, user_id, start_date_str, end_date_str, now) ==
    LET profile == get_user_profile(file, now)
    IN  IF profile = None THEN Outcome(None, file)
        ELSE Outcome(Val(SortByDate(FilterLogs(profile.val.daily_logs.items,
                                               start_date_str, end_date_str))),
                     file)

\* goal_data["goal_id"] = goal_id
SetKey(d, k, v) == [x \in DOMAIN d \cup {k} |-> IF x = k THEN v ELSE d[x]]

\* UserMemory.set_user_goal(user_id, goal_data)
set_user_goal(file, user_id, goal_data, now) ==
    LET profile == get_user_profile(file, now)
    IN  IF profile = None THEN Outcome(Val(FALSE), file)
        ELSE LET goal_id == Str([user_id |-> user_id, stamp |-> strftime_seconds(now)])
                 goal == Goal(SetKey(goal_data, "goal_id", goal_id))
             IN  IF goal.kind = "Exception" THEN Outcome(Val(FALSE), file)
                 ELSE LET saved == [profile.val EXCEPT
                                       !.goals = List(Append(@.items, goal.val)),
                                       !.updated_at = isoformat(now)]
                      IN  Outcome(Val(_save_user_profile(saved).ret),
                                  _save_user_profile(saved).file)

\* update_goal_status that sets the status of every goal of the record
update_goal_status_every_goal(file, user_id, goal_id, new_status, now) ==
    LET profile == get_user_profile(file, now)
    IN  IF profile = None THEN Outcome(Val(FALSE), file)
        ELSE LET goals == profile.val.goals.items
             IN  IF ~(\E i \in 1..Len(goals) : goals[i].goal_id = goal_id)
                 THEN Outcome(Val(FALSE), file)
                 ELSE Outcome(Val(TRUE),
                              JsonFile([profile.val EXCEPT
                                           !.goals =
                                               List([i \in 1..Len(goals) |->
                                                        [goals[i] EXCEPT
                                                            !.status = new_status]]),
                                           !.updated_at = isoformat(now)]))

\* UserMemory.update_goal_status(user_id, goal_id, new_status)
update_goal_status(file, user_id, goal_id, new_status, now) ==
    LET profile == get_user_profile(file, now)
    IN  IF profile = None THEN Outcome(Val(FALSE), file)
        ELSE LET goals == profile.val.goals.items
                 goal_found == \E i \in 1..Len(goals) : goals[i].goal_id = goal_id
             IN  IF ~goal_found THEN Outcome(Val(FALSE), file)
                 ELSE LET first == CHOOSE i \in 1..Len(goals) :
                                       /\ goals[i].goal_id = goal_id
                                       /\ \A j \in 1..(i - 1) : goals[j].goal_id # goal_id
                          saved == [profile.val EXCEPT
                                       !.goals = List([goals EXCEPT ![first].status =
                                                                        new_status]),
                                       !.updated_at = isoformat(now)]
                      IN  Outcome(Val(_save_user_profile(saved).ret),
                                  _save_user_profile(saved).file)

\* NutritionAgent.get_user_profile: the ten descriptive fields, or None
agent_get_user_profile(file, now) ==
    LET profile == get_user_profile(file, now)
    IN  IF profile = None THEN None
        ELSE Val([k \in {"user_id", "name", "age", "gender", "height", "weight",
                         "activity_level", "health_goal", "dietary_restrictions",
                         "preferences"} |-> profile.val[k]])

\* the text chat hands to self.agent.run
chat_prompt(file, message, now) ==
    IF agent_get_user_profile(file, now) # None
    THEN [context |-> [k \in DOMAIN agent_get_user_profile(file, now).val \ {"user_id"} |->
                          agent_get_user_profile(file, now).val[k]],
          question |-> message]
    ELSE [question |-> message]

\* what self.agent.run does with a prompt: a reply, or an exception
AgentRuns == {Val(Str("a")), Exc("Exception")}

ChatErrorMessage == Str("chat error")

\* NutritionAgent.chat(user_id, message), run being the outcome of self.agent.run
chat(file, user_id, message, run, now) ==
    IF run.kind = "Exception" THEN Outcome(Val(ChatErrorMessage), file)
    ELSE Outcome(Val(run.val),
                 add_consultation_record(file, user_id, message, run.val,
                                         Str("general"), now).file)

\* Inputs of the handlers

Users == {"u1", "u2"}

Kw(key, value) == [key |-> key, value |-> value]

KwargsPool ==
    { <<>>,
      <<Kw("name", Str("A"))>>,
      <<Kw("name", Str("B"))>>,
      <<Kw("age", Str("abc"))>>,
      <<Kw("nickname", Str("B"))>>,
      <<Kw("consultations", List(<<>>))>>,
      <<Kw("updated_at", isoformat(0))>> }

EntryPool ==
    { [food_name |-> Str("apple"), amount |-> Num(100), unit |-> Str("g")],
      [food_name |-> Str("apple")] }

GoalPool ==
    { [description |-> Str("lose"), target_value |-> Num(2), unit |-> Str("kg"),
       start_date |-> Str(1), target_date |-> Str(2)],
      [description |-> Str("lose"), unit |-> Str("kg"),
       start_date |-> Str(1), target_date |-> Str(2)] }

GoalId(user_id, stamp) == Str([user_id |-> user_id, stamp |-> stamp])

\* Files found under profiles_path when the store is opened

LegacyData(user_id) ==
    [user_id |-> Str(user_id), name |-> Str("A"), age |-> Num(30),
     gender |-> Str("unknown"), height |-> Num(170), weight |-> Num(65),
     activity_level |-> Str("light"), health_goal |-> Str("maintain"),
     dietary_restrictions |-> Str("none"), preferences |-> Str("none")]

\* a record written before daily_logs and goals were added to the model
EarlierData(user_id) ==
    LegacyData(user_id) @@
    [created_at |-> isoformat(0),
     updated_at |-> isoformat(0),
     consultations |->
         List(<<[consultation_id |-> Str([user_id |-> user_id, stamp |-> 0]),
                 user_id |-> Str(user_id), date |-> Str(<<0>>),
                 question |-> Str("q"), answer |-> Str("a"),
                 category |-> Str("general"), created_at |-> isoformat(0)]>>)]

ExistingData(user_id) ==
    LegacyData(user_id) @@
    [created_at |-> isoformat(0),
     updated_at |-> isoformat(1),
     consultations |->
         List(<<[consultation_id |-> Str([user_id |-> user_id, stamp |-> 0]),
                 user_id |-> Str(user_id), date |-> Str(<<0>>),
                 question |-> Str("q"), answer |-> Str("a"),
                 category |-> Str("general"), created_at |-> isoformat(1)]>>),
     daily_logs |->
         List(<<[date |-> MaxDate,
                 entries |-> <<[food_name |-> Str("rice"), amount |-> Num(200),
                                unit |-> Str("g"), calories |-> Num(260),
                                protein |-> Null, carbs |-> Null, fat |-> Null]>>]>>),
     goals |->
         List(<<[goal_id |-> GoalId(user_id, 0), description |-> Str("gain"),
                 target_value |-> Num(1), unit |-> Str("kg"), start_date |-> Str(1),
                 target_date |-> Str(2), status |-> Str("active")]>>)]

InitialFiles(user_id) ==
    IF user_id = "u1"
    THEN { Absent,
           Garbage,
           JsonFile([LegacyData(user_id) EXCEPT !.age = Str("abc")]),
           JsonFile(LegacyData(user_id)),
           JsonFile(EarlierData(user_id)),
           JsonFile(ExistingData(user_id)) }
    ELSE { Absent, JsonFile(ExistingData(user_id)) }

----------------------------------------------------------------------------
(* State *)

VARIABLES
    config,      \* config.py: which API keys the environment sets
    database,    \* the NutritionDatabase of the tool, or Unconstructed
    call,        \* the last NutritionQueryTool._run call, or NoCall
    files,       \* profiles_path: the content of <user_id>.json for every user
    clock,       \* the wall clock at the last handler call, in ticks
    last,        \* the last UserMemory handler call and its result, or NoOp
    procs,       \* two processes inside add_consultation_record: where each is
    lastWriter   \* per user, the document of the process that wrote last

engineVars == <<config, database, call>>

memoryVars == <<files, clock, last>>

raceVars == <<procs, lastWriter>>

vars == <<config, database, call, files, clock, last, procs, lastWriter>>

Unconstructed == [kind |-> "unconstructed"]
NoCall == [kind |-> "idle"]
NoOp == [kind |-> "idle"]

Configs == [USDA_API_KEY : BOOLEAN, NUTRITIONIX_KEYS : BOOLEAN]

\* the processes that share profiles_path
Procs == {"p1", "p2"}

Idle == [pc |-> "idle"]
NoWriter == [kind |-> "None"]

\* no process is inside a handler
RaceIdle ==
    /\ procs = [p \in Procs |-> Idle]
    /\ lastWriter = [user_id \in Users |-> NoWriter]

EngineInit ==
    /\ config \in Configs
    /\ database = Unconstructed
    /\ call = NoCall
    /\ files = [user_id \in Users |-> Absent]
    /\ clock = 0
    /\ last = NoOp
    /\ RaceIdle

\* NutritionDatabase(embeddings, data_path, vector_db_path)
\* whether embed_documents raised in _create_vector_db: the index is built,
\* and the provider asked, unless an index is loaded from the disk
embed_failed(csv, disk_index, embed_ok) ==
    /\ ~embed_ok
    /\ csv.kind = "corrupt" \/ disk_index.kind # "index"

Construct(csv, disk_index, embed_ok) ==
    /\ database = Unconstructed
    /\ database' = [kind |-> "database",
                    embed_failed |-> embed_failed(csv, disk_index, embed_ok)]
                       @@ _load_data(csv, disk_index, embed_ok)
    /\ UNCHANGED <<config, call>>
    /\ UNCHANGED memoryVars
    /\ UNCHANGED raceVars

\* tool._run(food_name, detailed): the database and the tool are not modified
\* by a call, so every call starts from the constructed state.  A provider
\* answers only when the call reaches it.
Run(food_name, detailed) ==
    /\ database # Unconstructed
    /\ call = NoCall
    /\ \E usda_response \in (IF config.USDA_API_KEY THEN UsdaResponses ELSE {Unused}) :
         LET local_reached ==
                 usda_step(food_name, detailed, config.USDA_API_KEY, usda_response).kind
                     = "FallThrough"
             search_reached ==
                 /\ local_reached
                 /\ get_nutrition_by_name(database.nutrition_data, food_name) = None
         IN  \E ranking \in (IF search_reached THEN Rankings(database.vector_store)
                                               ELSE {Unused}) :
               LET post_reached ==
                       /\ local_reached
                       /\ local_step(food_name, detailed, database, ranking).res.kind
                              = "FallThrough"
                       /\ config.NUTRITIONIX_KEYS
               IN  \E nix_response \in (IF post_reached THEN NixResponses ELSE {Unused}) :
                     call' = _run(food_name, detailed, config, database,
                                  usda_response, ranking, nix_response)
    /\ UNCHANGED <<config, database>>
    /\ UNCHANGED memoryVars
    /\ UNCHANGED raceVars

EngineNext ==
    \/ \E csv \in CsvFiles, disk_index \in DiskIndexes, embed_ok \in BOOLEAN :
           Construct(csv, disk_index, embed_ok)
    \/ \E food_name \in Strings(MaxNameLen), detailed \in BOOLEAN : Run(food_name, detailed)

EngineSpec == EngineInit /\ [][EngineNext]_vars

----------------------------------------------------------------------------
(* UserMemory: one action per handler *)

MemoryInit ==
    /\ files \in {f \in [Users -> UNION {InitialFiles(u) : u \in Users}] :
                     \A u \in Users : f[u] \in InitialFiles(u)}
    /\ clock = 1
    /\ last = NoOp

Init ==
    /\ MemoryInit
    /\ config = [USDA_API_KEY |-> FALSE, NUTRITIONIX_KEYS |-> FALSE]
    /\ database = Unconstructed
    /\ call = NoCall
    /\ RaceIdle

\* The instants at which the next handler may run: the wall clock has moved
\* on since the last call, by a fraction of a second or by a whole second
NextTicks == {now \in {clock + 1, clock + TicksPerSecond} : now <= MaxClock}

\* A handler runs at instant now and leaves its result for the caller
Handler(op, user_id, args, now, out) ==
    /\ last = NoOp
    /\ files' = [files EXCEPT ![user_id] = out.file]
    /\ clock' = now
    /\ last' = [kind |-> "op", op |-> op, user_id |-> user_id, args |-> args,
                ret |-> out.ret, before |-> files, now |-> now]
    /\ UNCHANGED engineVars
    /\ UNCHANGED raceVars

GetUserProfile(user_id, now) ==
    Handler("get_user_profile", user_id, [none |-> TRUE], now,
            Outcome(get_user_profile(files[user_id], now), files[user_id]))

CreateUserProfile(user_id, kwargs, now) ==
    Handler("create_user_profile", user_id, [kwargs |-> kwargs], now,
            create_user_profile(files[user_id], user_id, kwargs, now, 1))

UpdateUserProfile(user_id, kwargs, now) ==
    Handler("update_user_profile", user_id, [kwargs |-> kwargs], now,
            update_user_profile(files[user_id], user_id, kwargs, now, 1))

AddConsultationRecord(user_id, now) ==
    Handler("add_consultation_record", user_id, [question |-> Str("q")], now,
            add_consultation_record(files[user_id], user_id, Str("q"), Str("a"),
                                    Str("general"), now))

AddDailyLogEntry(user_id, date_str, food_entry_data, now) ==
    Handler("add_daily_log_entry", user_id,
            [date_str |-> date_str, food_entry_data |-> food_entry_data], now,
            add_daily_log_entry(files[user_id], user_id, date_str, food_entry_data,
                                now))

GetDailyLogsForPeriod(user_id, start_date_str, end_date_str, now) ==
    Handler("get_daily_logs_for_period", user_id,
            [start_date_str |-> start_date_str, end_date_str |-> end_date_str], now,
            get_daily_logs_for_period(files[user_id], user_id, start_date_str,
                                      end_date_str, now))

SetUserGoal(user_id, goal_data, now) ==
    Handler("set_user_goal", user_id, [goal_data |-> goal_data], now,
            set_user_goal(files[user_id], user_id, goal_data, now))

UpdateGoalStatus(user_id, goal_id, new_status, now) ==
    Handler("update_goal_status", user_id,
            [goal_id |-> goal_id, new_status |-> new_status], now,
            update_goal_status(files[user_id], user_id, goal_id, new_status, now))

Chat(user_id, message, run, now) ==
    Handler("chat", user_id,
            [message |-> message, prompt |-> chat_prompt(files[user_id], message, now)],
            now, chat(files[user_id], user_id, message, run, now))

\* The caller takes the handler's result
TakeResult ==
    /\ last # NoOp
    /\ last' = NoOp
    /\ UNCHANGED <<files, clock>>
    /\ UNCHANGED engineVars
    /\ UNCHANGED raceVars

Next ==
    \/ \E user_id \in Users, now \in NextTicks : GetUserProfile(user_id, now)
    \/ \E user_id \in Users, kwargs \in KwargsPool, now \in NextTicks :
           CreateUserProfile(user_id, kwargs, now)
    \/ \E user_id \in Users, kwargs \in KwargsPool, now \in NextTicks :
           UpdateUserProfile(user_id, kwargs, now)
    \/ \E user_id \in Users, now \in NextTicks : AddConsultationRecord(user_id, now)
    \/ \E user_id \in Users, date_str \in 1..MaxDate, food_entry_data \in EntryPool,
          now \in NextTicks :
           AddDailyLogEntry(user_id, date_str, food_entry_data, now)
    \/ \E user_id \in Users, start_date_str \in 1..MaxDate, end_date_str \in 1..MaxDate,
          now \in NextTicks :
           GetDailyLogsForPeriod(user_id, start_date_str, end_date_str, now)
    \/ \E user_id \in Users, goal_data \in GoalPool, now \in NextTicks :
           SetUserGoal(user_id, goal_data, now)
    \/ \E user_id \in Users, stamp \in 0..(MaxClock \div TicksPerSecond),
          now \in NextTicks :
           UpdateGoalStatus(user_id, GoalId(user_id, stamp), Str("achieved"), now)
    \/ \E user_id \in Users, run \in AgentRuns, now \in NextTicks :
           Chat(user_id, Str("q"), run, now)
    \/ TakeResult

Spec == Init /\ [][Next]_vars

----------------------------------------------------------------------------
(* Two processes in add_consultation_record on the same profiles_path.  The
   handler takes no lock; its steps on the file are the read of
   get_user_profile, and the open(filepath, "w") and the json.dump of
   _save_user_profile.  Each process has a file offset of its own. *)

\* the replies the two processes record
AnswerPool == {Str("a"), Str("aa")}

\* characters of a str in the dumped document
TextLen(text) == Len(text.s)

\* characters json.dump writes for the consultations of a document; the
\* documents written for one user differ in their consultations only
RECURSIVE ConsultationsLen(_)
ConsultationsLen(items) ==
    IF items = <<>> THEN 0
    ELSE TextLen(Head(items).question) + TextLen(Head(items).answer)
         + ConsultationsLen(Tail(items))

json_len(data) == ConsultationsLen(data.consultations.items)

\* the file after data was written from offset 0 by a process that opened it
\* earlier: bytes another process wrote beyond the end of data stay
Overwrite(content, data) ==
    IF content.kind = "json" /\ json_len(content.data) > json_len(data)
    THEN Garbage
    ELSE JsonFile(data)

\* the instants at which a process may read the clock
RaceTicks == {clock} \cup NextTicks

\* add_consultation_record up to the call of _save_user_profile
Read(p, user_id, answer, now) ==
    /\ procs[p].pc = "idle"
    /\ LET out == add_consultation_record(files[user_id], user_id, Str(p), answer,
                                          Str("general"), now)
       IN  procs' = [procs EXCEPT ![p] =
                        IF out.ret = Val(TRUE)
                        THEN [pc |-> "modified", user_id |-> user_id,
                              doc |-> out.file.data]
                        ELSE [pc |-> "done", user_id |-> user_id, ret |-> FALSE]]
    /\ clock' = now
    /\ UNCHANGED <<files, last, lastWriter>>
    /\ UNCHANGED engineVars

\* _save_user_profile: open(filepath, "w") truncates the file
Open(p) ==
    /\ procs[p].pc = "modified"
    /\ files' = [files EXCEPT ![procs[p].user_id] = Garbage]
    /\ procs' = [procs EXCEPT ![p].pc = "opened"]
    /\ UNCHANGED <<clock, last, lastWriter>>
    /\ UNCHANGED engineVars

\* _save_user_profile: json.dump and the close of the file; the handler
\* returns True
Dump(p) ==
    /\ procs[p].pc = "opened"
    /\ files' = [files EXCEPT ![procs[p].user_id] = Overwrite(@, procs[p].doc)]
    /\ procs' = [procs EXCEPT ![p] = [pc |-> "done", user_id |-> procs[p].user_id,
                                      ret |-> TRUE, doc |-> procs[p].doc]]
    /\ lastWriter' = [lastWriter EXCEPT ![procs[p].user_id] =
                         [kind |-> "writer", proc |-> p, doc |-> procs[p].doc]]
    /\ UNCHANGED <<clock, last>>
    /\ UNCHANGED engineVars

RaceNext ==
    \/ \E p \in Procs, user_id \in Users, answer \in AnswerPool, now \in RaceTicks :
           Read(p, user_id, answer, now)
    \/ \E p \in Procs : Open(p)
    \/ \E p \in Procs : Dump(p)

RaceSpec == Init /\ [][RaceNext]_vars

----------------------------------------------------------------------------
(* NutritionQueryTool._run seen from the network: the call blocks in
   requests.get and in requests.post until the provider answers or the
   timeout passed to the request expires. *)

\* requests.get(url, params=params): no timeout is passed
usda_timeout == None

\* requests.post(NUTRITIONIX_API_URL, headers=headers, json=data, timeout=10)
nutritionix_timeout == Val(10)

\* _run blocked in a request to a provider
Waiting(provider, timeout, food_name, detailed, usda_response, ranking) ==
    [kind |-> "waiting", provider |-> provider, timeout |-> timeout,
     food_name |-> food_name, detailed |-> detailed,
     usda_response |-> usda_response, ranking |-> ranking]

\* _run from the end of step 0 on: it returns, or blocks in requests.post
AfterUsda(food_name, detailed, usda_response) ==
    LET local_reached ==
            usda_step(food_name, detailed, config.USDA_API_KEY, usda_response).kind
                = "FallThrough"
        search_reached ==
            /\ local_reached
            /\ get_nutrition_by_name(database.nutrition_data, food_name) = None
    IN  { IF /\ local_reached
             /\ local_step(food_name, detailed, database, ranking).res.kind = "FallThrough"
             /\ config.NUTRITIONIX_KEYS
          THEN Waiting("nutritionix", nutritionix_timeout, food_name, detailed,
                       usda_response, ranking)
          ELSE _run(food_name, detailed, config, database, usda_response, ranking, Unused) :
          ranking \in (IF search_reached THEN Rankings(database.vector_store)
                                         ELSE {Unused}) }

\* the databases the tool is given: the built-in sample table, with or
\* without a semantic index
NetDatabases ==
    { [kind |-> "database"] @@ _load_data([kind |-> "absent"], disk_index, embed_ok) :
        disk_index \in {[kind |-> "absent"], [kind |-> "corrupt"]}, embed_ok \in BOOLEAN }

NetInit ==
    /\ config \in Configs
    /\ database \in NetDatabases
    /\ call = NoCall
    /\ files = [user_id \in Users |-> Absent]
    /\ clock = 0
    /\ last = NoOp
    /\ RaceIdle

\* tool._run(food_name, detailed) is called: step 0 sends its request when
\* the key is configured
Begin(food_name, detailed) ==
    /\ call = NoCall
    /\ IF config.USDA_API_KEY
       THEN call' = Waiting("usda", usda_timeout, food_name, detailed, Unused, Unused)
       ELSE call' \in AfterUsda(food_name, detailed, Unused)
    /\ UNCHANGED <<config, database>>
    /\ UNCHANGED memoryVars
    /\ UNCHANGED raceVars

\* the authoritative provider answers, or the connection fails
UsdaResponds(usda_response) ==
    /\ call.kind = "waiting"
    /\ call.provider = "usda"
    /\ call' \in AfterUsda(call.food_name, call.detailed, usda_response)
    /\ UNCHANGED <<config, database>>
    /\ UNCHANGED memoryVars
    /\ UNCHANGED raceVars

\* the secondary provider answers, or the connection fails
NixResponds(nix_response) ==
    /\ call.kind = "waiting"
    /\ call.provider = "nutritionix"
    /\ nix_response.kind # "timeout"
    /\ call' = _run(call.food_name, call.detailed, config, database,
                    call.usda_response, call.ranking, nix_response)
    /\ UNCHANGED <<config, database>>
    /\ UNCHANGED memoryVars
    /\ UNCHANGED raceVars

\* the timeout passed to the request expires: requests raises Timeout, which
\* step 0 would take as a failed lookup and step 2 reports
TimeoutExpires ==
    /\ call.kind = "waiting"
    /\ call.timeout # None
    /\ call' \in
         IF call.provider = "usda"
         THEN AfterUsda(call.food_name, call.detailed, [kind |-> "network_error"])
         ELSE {_run(call.food_name, call.detailed, config, database,
                    call.usda_response, call.ranking, [kind |-> "timeout"])}
    /\ UNCHANGED <<config, database>>
    /\ UNCHANGED memoryVars
    /\ UNCHANGED raceVars

NetNext ==
    \/ \E food_name \in Strings(MaxNameLen), detailed \in BOOLEAN : Begin(food_name, detailed)
    \/ \E usda_response \in UsdaResponses : UsdaResponds(usda_response)
    \/ \E nix_response \in NixResponses : NixResponds(nix_response)
    \/ TimeoutExpires

\* A provider may stay silent for ever; a timeout that was set does expire
NetSpec == NetInit /\ [][NetNext]_vars /\ WF_vars(TimeoutExpires)

----------------------------------------------------------------------------
(* Properties of NutritionQueryTool._run *)

Done == call.kind = "call"

Returned == Done /\ call.ret.kind = "Return"

\* The three outcomes of the engine, by the template of the answer.
OutcomeKind(answer) ==
    CASE answer.tmpl = "nutrition_info" -> "Found"
      [] answer.tmpl = "similar_foods" -> "Suggestions"
      [] answer.tmpl \in {"no_nutritionix_key", "all_sources_missed", "api_timeout",
                          "api_http_error", "api_unknown_error"} -> "NotFound"
      [] OTHER -> "Other"

Consulted(tier) == Done /\ tier \in Range(call.trace)

TierOrder == <<"usda", "exact", "semantic", "secondary">>

\* the rows of the table whose name is the query
RowsNamed(food_name) ==
    {i \in 1..Len(database.nutrition_data.rows) :
        /\ "food_name" \in DOMAIN database.nutrition_data.rows[i]
        /\ database.nutrition_data.rows[i].food_name = food_name}

\* what the semantic search of the call returned
SearchResults == search_nutrition(database.vector_store, call.ranking, 3)

\* the acceptance rule of the specification, on lower-cased names
Near(name, query) ==
    LET n == lower(name)
        q == lower(query)
    IN  n = q \/ contains(q, n) \/ contains(n, q)

AcceptableResults == {i \in 1..Len(SearchResults) : Near(SearchResults[i].food_name, call.food_name)}

\* a tier has succeeded: it found data for the query
TierSucceeded(tier) ==
    CASE tier = "usda" ->
            _search_food_nutrition_structured(config.USDA_API_KEY, call.usda_response) # None
      [] tier = "exact" -> RowsNamed(call.food_name) # {}
      [] tier = "semantic" -> Consulted("semantic") /\ AcceptableResults # {}
      [] tier = "secondary" -> FALSE

\* C1: the tiers are consulted in the fixed order authoritative, exact,
\* semantic, secondary: a tier is consulted only after every earlier tier
\* has been consulted and has missed, and no tier is consulted after a tier
\* that found the food.
C1_FixedOrderShortCircuit ==
    Done =>
        /\ \A i \in 1..Len(call.trace) : call.trace[i] = TierOrder[i]
        /\ \A i, j \in 1..Len(call.trace) :
               i < j => ~TierSucceeded(call.trace[i])

\* C2: every call returns, and what it returns is one of Found, Suggestions
\* and NotFound; no exception reaches the caller.
C2_ReturnsOneOfThreeOutcomes ==
    Done =>
        /\ call.ret.kind = "Return"
        /\ OutcomeKind(call.ret.val) \in {"Found", "Suggestions", "NotFound"}

\* a call in which a tier raised or a provider sent a malformed payload, and
\* the caller still got an answer
C2_Witness ==
    /\ Returned
    /\ "food_name" \notin database.nutrition_data.columns
    /\ call.posted
    /\ call.nix_response.kind = "json"
    /\ call.ret.val.tmpl = "api_unknown_error"

\* the value a row stores for a column, a missing one counting as 0
Stored(row, column) == IF column \in DOMAIN row THEN row[column] ELSE 0

\* C3: a query that is the exact name of a food of the table, with the
\* authoritative tier missing, is answered Found from the local tier with
\* the stored values of that food, without a search and without the
\* secondary source.
C3_ExactNameAnsweredLocally ==
    (Done /\ Consulted("exact") /\ RowsNamed(call.food_name) # {}) =>
        /\ Returned
        /\ OutcomeKind(call.ret.val) = "Found"
        /\ call.ret.val.source = "local"
        /\ \E i \in RowsNamed(call.food_name) :
              LET row == database.nutrition_data.rows[i]
              IN  /\ call.ret.val.food_name = row.food_name
                  /\ \A k \in 1..4 :
                        call.ret.val.basic[k].value = Stored(row, NutrientColumns[k])
        /\ call.trace = <<"usda", "exact">>
        /\ ~call.posted

\* the failures of the authoritative tier: no key, a failed request, an
\* empty candidate list, a value that cannot be parsed
UsdaFailed ==
    \/ ~config.USDA_API_KEY
    \/ call.usda_response.kind \in {"network_error", "http_error"}
    \/ /\ call.usda_response.kind = "json"
       /\ \/ call.usda_response.data.foods = <<>>
          \/ \E n \in Range(call.usda_response.data.foods[1].foodNutrients) : n.value = Null

\* C4: a failure of the authoritative tier is a miss: the call goes on to
\* the exact-match tier and its answer is an outcome of a later tier.
C4_UsdaFailureIsMiss ==
    (Done /\ UsdaFailed) =>
        /\ Len(call.trace) >= 2
        /\ call.trace[2] = "exact"
        /\ call.ret.kind = "Return"
        /\ OutcomeKind(call.ret.val) \in {"Found", "Suggestions", "NotFound"}
        /\ (OutcomeKind(call.ret.val) = "Found" => call.ret.val.source # "usda")

C4_Witness ==
    /\ Returned
    /\ config.USDA_API_KEY
    /\ call.usda_response.kind = "json"
    /\ call.usda_response.data.foods # <<>>
    /\ call.trace = <<"usda", "exact">>
    /\ OutcomeKind(call.ret.val) = "Found"

C7_SecondaryAfterSemanticMiss ==
    (Done /\ Consulted("semantic") /\ AcceptableResults = {}) => Consulted("secondary")

\* C7 amended: when the search returns no candidate at all the call goes on
\* to the secondary tier (posting the query if the credentials are set, and
\* answering NotFound for the missing credentials otherwise); when it returns
\* candidates of which none is acceptable the call answers Suggestions and
\* the secondary source is not queried.
C7_SecondaryAfterEmptySearch ==
    (Done /\ Consulted("semantic")) =>
        /\ SearchResults = <<>> =>
              /\ Consulted("secondary")
              /\ call.posted = config.NUTRITIONIX_KEYS
              /\ ~config.NUTRITIONIX_KEYS => call.ret = Return(NoKeyMessage(call.food_name))
        /\ (SearchResults # <<>> /\ AcceptableResults = {}) =>
              /\ ~Consulted("secondary")
              /\ ~call.posted

\* the index exists, the search fails, and the query is posted
C7_Witness ==
    /\ Returned
    /\ Consulted("semantic")
    /\ database.vector_store # None
    /\ SearchResults = <<>>
    /\ call.posted

\* C8: timeout, HTTP error status and empty payload are each answered with
\* their own message, different from one another and from the message of any
\* other error; none raises.
C8_DistinctFailureMessages ==
    /\ \A s \in {401, 500}, t \in {"unauthorized", ""}, e \in {"ConnectionError", "TypeError"},
         q \in Strings(MaxNameLen) :
           Cardinality({TimeoutMessage, HttpErrorMessage(s, t), AllMissedMessage(q),
                        UnknownErrorMessage(e)}) = 4
    /\ (Done /\ call.posted) =>
        /\ call.ret.kind = "Return"
        /\ call.nix_response.kind = "timeout" => call.ret.val = TimeoutMessage
        /\ call.nix_response.kind = "http_error" =>
              call.ret.val = HttpErrorMessage(call.nix_response.status_code,
                                              call.nix_response.text)
        /\ (call.nix_response.kind = "json" /\ "foods" \notin DOMAIN call.nix_response.data) =>
              call.ret.val = AllMissedMessage(call.food_name)
        /\ call.nix_response.kind = "connection_error" =>
              call.ret.val.tmpl = "api_unknown_error"

C8_Witness ==
    /\ Returned
    /\ call.posted
    /\ call.nix_response.kind = "http_error"
    /\ call.ret.val.tmpl = "api_http_error"

\* the answers the providers give to a second call on the same sources: those
\* the call received, and any answer of a provider the call did not reach
SameSources ==
    { [nix_response |-> nix_response] :
        nix_response \in (IF call.nix_response = Unused /\ config.NUTRITIONIX_KEYS
                          THEN NixResponses
                          ELSE {call.nix_response}) }

\* the call on the same sources with the other value of detailed
OtherDetailed(sources) ==
    _run(call.food_name, ~call.detailed, config, database, call.usda_response,
         call.ranking, sources.nix_response)

\* the tier an answer comes from
SourceOf(answer) == IF "source" \in DOMAIN answer THEN answer.source ELSE "none"

\* C22: on the same sources, the call with the other value of detailed
\* consults the same tiers and returns the same kind of outcome from the same
\* source.
C22_DetailedKeepsTiers ==
    Returned =>
        \A sources \in SameSources :
            LET other == OtherDetailed(sources)
            IN  /\ other.trace = call.trace
                /\ other.ret.kind = "Return"
                /\ OutcomeKind(other.ret.val) = OutcomeKind(call.ret.val)
                /\ SourceOf(other.ret.val) = SourceOf(call.ret.val)

\* where the property does hold: the record that answers locally has every
\* column, and the call with the other flag differs in the displayed fields only
C22_CompleteRecordsOnly ==
    (Returned /\ AllColumns \subseteq database.nutrition_data.columns
              /\ (database.vector_store # None =>
                     \A i \in 1..Len(database.vector_store.docs) :
                         AllColumns \subseteq DOMAIN database.vector_store.docs[i])) =>
        \A sources \in SameSources :
            LET other == OtherDetailed(sources)
            IN  /\ other.trace = call.trace
                /\ other.ret.kind = "Return"
                /\ OutcomeKind(other.ret.val) = OutcomeKind(call.ret.val)
                /\ SourceOf(other.ret.val) = SourceOf(call.ret.val)

\* the columns the formatter of a local record displays
DisplayedColumns ==
    <<"calories", "protein", "carbs", "fat">> \o
    (IF call.detailed THEN <<"fiber", "vitamin_c", "calcium", "iron">> ELSE <<>>)

\* the values an answer displays, basic lines first
DisplayedValues(answer) ==
    [k \in 1..(Len(answer.basic) + Len(answer.details)) |->
        IF k <= Len(answer.basic) THEN answer.basic[k].value
        ELSE answer.details[k - Len(answer.basic)].value]

\* the local record that answers the call: a row with the exact name, or
\* else the first acceptable result of the search
LocalMatches ==
    IF ~Consulted("exact") THEN {}
    ELSE IF RowsNamed(call.food_name) # {}
    THEN {database.nutrition_data.rows[i] : i \in RowsNamed(call.food_name)}
    ELSE IF Consulted("semantic") /\ AcceptableResults # {}
    THEN {SearchResults[CHOOSE i \in AcceptableResults :
                            \A j \in AcceptableResults : i <= j]}
    ELSE {}

\* C23: when the local record that matches the query lacks a displayed
\* nutrient field, the call still returns Found from the local tier, with 0
\* for that field, and goes to no further tier.
C23_MissingFieldReadsZero ==
    (Done /\ \E record \in LocalMatches :
                 /\ "food_name" \in DOMAIN record
                 /\ \E k \in 1..Len(DisplayedColumns) :
                        DisplayedColumns[k] \notin DOMAIN record) =>
        /\ Returned
        /\ OutcomeKind(call.ret.val) = "Found"
        /\ SourceOf(call.ret.val) = "local"
        /\ "secondary" \notin Range(call.trace)
        /\ \E record \in LocalMatches :
              DisplayedValues(call.ret.val) =
                  [k \in 1..Len(DisplayedColumns) |-> Stored(record, DisplayedColumns[k])]

\* the candidate the authoritative tier chose: the first food of the payload
ChosenCandidate == call.usda_response.data.foods[1]

\* the lines of an answer, basic lines first
AnswerLines(answer) == answer.basic \o answer.details

\* C24: on a hit of the authoritative tier every nutrient of the chosen
\* candidate is in the answer, under its canonical label when its id is in
\* the whitelist and under its own name otherwise.  The property is stated
\* for the detailed answer, which displays the most.
C24_EveryUsdaNutrientKept ==
    (Returned /\ SourceOf(call.ret.val) = "usda" /\ call.detailed) =>
        \A i \in 1..Len(ChosenCandidate.foodNutrients) :
            LET nutrient == ChosenCandidate.foodNutrients[i]
            IN  \E k \in 1..Len(AnswerLines(call.ret.val)) :
                    LET line == AnswerLines(call.ret.val)[k]
                    IN  /\ line.value = nutrient.value.v
                        /\ nutrient.nutrientId \in DOMAIN NUTRIENTS_OF_INTEREST =>
                               line.label =
                                   MappingOf(NUTRIENTS_OF_INTEREST[nutrient.nutrientId])[1]

\* what the code keeps: the four basic nutrients, and of the other
\* whitelisted ones those whose label differs from their name
C24_BasicNutrientsKept ==
    (Returned /\ SourceOf(call.ret.val) = "usda") =>
        \A i \in 1..Len(ChosenCandidate.foodNutrients) :
            LET nutrient == ChosenCandidate.foodNutrients[i]
            IN  (/\ nutrient.nutrientId \in DOMAIN NUTRIENTS_OF_INTEREST
                 /\ NUTRIENTS_OF_INTEREST[nutrient.nutrientId] \in Range(base_nutrients)) =>
                    \E k \in 1..Len(call.ret.val.basic) :
                        /\ call.ret.val.basic[k].value = nutrient.value.v
                        /\ call.ret.val.basic[k].label =
                               MappingOf(NUTRIENTS_OF_INTEREST[nutrient.nutrientId])[1]

\* the items of the secondary source's answer
SecondaryItems == call.nix_response.data.foods

SecondaryAnswered ==
    /\ Done
    /\ call.posted
    /\ call.nix_response.kind = "json"
    /\ "foods" \in DOMAIN call.nix_response.data
    /\ Len(SecondaryItems) >= 1

\* an item's value, an item lacking one counting as 0
ValueOr0(food, key) ==
    IF key \in DOMAIN food /\ food[key].t = "num" THEN food[key].v ELSE 0

RECURSIVE TotalOf(_, _)
TotalOf(foods, key) ==
    IF foods = <<>> THEN 0 ELSE ValueOr0(Head(foods), key) + TotalOf(Tail(foods), key)

NixKeys == <<"nf_calories", "nf_protein", "nf_total_carbohydrate", "nf_total_fat">>

SecondaryReport ==
    /\ Returned
    /\ SourceOf(call.ret.val) \in {"nutritionix", "nutritionix_compound"}
    /\ \A i \in 1..4 : call.ret.val.basic[i].value = TotalOf(SecondaryItems, NixKeys[i])
    /\ Len(SecondaryItems) = 1 => call.ret.val.items = <<>>
    /\ Len(SecondaryItems) >= 2 =>
          /\ Len(call.ret.val.items) = Len(SecondaryItems)
          /\ \A i \in 1..Len(SecondaryItems) :
                /\ call.ret.val.items[i].food_name = SecondaryItems[i].food_name
                /\ call.ret.val.items[i].calories.v = ValueOr0(SecondaryItems[i], "nf_calories")

\* C25: one item of the secondary source is reported with its own values;
\* n >= 2 items are reported with the sum of their calories, protein,
\* carbohydrate and fat, an item lacking a value counting as 0, and with one
\* line per item in the order returned.
C25_SecondaryItemsReported == SecondaryAnswered => SecondaryReport

\* what holds of the code: the report is made when every value the items
\* carry is a number
C25_NumericItemsReported ==
    (/\ SecondaryAnswered
     /\ \A i \in 1..Len(SecondaryItems), k \in 1..4 :
           NixKeys[k] \in DOMAIN SecondaryItems[i] => SecondaryItems[i][NixKeys[k]].t = "num")
        => SecondaryReport

\* the records loaded into the table
Records == database.nutrition_data.rows

NamedTable == database # Unconstructed /\ "food_name" \in database.nutrition_data.columns

\* C26: get_nutrition_by_name with the exact name of a loaded record returns
\* that record with every field unchanged, also when several records have
\* the name; a name no record has, in this spelling and case, returns None.
C26_ExactNameReturnsRecord ==
    NamedTable =>
        /\ \A i \in 1..Len(Records) :
              get_nutrition_by_name(database.nutrition_data, Records[i].food_name)
                  = Val(Records[i])
        /\ \A name \in Strings(MaxNameLen) :
              RowsNamed(name) = {} =>
                  get_nutrition_by_name(database.nutrition_data, name) = None

\* what holds of the code: the first record of the name is returned, and
\* each record whose name no earlier record has is returned unchanged
C26_FirstRecordOfNameReturned ==
    NamedTable =>
        /\ \A i \in 1..Len(Records) :
              LET first == CHOOSE j \in RowsNamed(Records[i].food_name) :
                               \A k \in RowsNamed(Records[i].food_name) : j <= k
              IN  get_nutrition_by_name(database.nutrition_data, Records[i].food_name)
                      = Val(Records[first])
        /\ \A name \in Strings(MaxNameLen) :
              RowsNamed(name) = {} =>
                  get_nutrition_by_name(database.nutrition_data, name) = None

\* C27: when the embedding provider fails while the index is built, the
\* database is constructed all the same and has no index; every search
\* then returns the empty sequence, and a call that reaches the semantic
\* tier goes on to the secondary tier.
C27_EmbeddingFailureIsMiss ==
    (database # Unconstructed /\ database.embed_failed) =>
        /\ database.vector_store = None
        /\ \A ranking \in Rankings(database.vector_store), top_k \in 1..3 :
              search_nutrition(database.vector_store, ranking, top_k) = <<>>
        /\ (Done /\ Consulted("semantic")) =>
              /\ SearchResults = <<>>
              /\ Consulted("secondary")
              /\ call.posted = config.NUTRITIONIX_KEYS

C27_Witness ==
    /\ database # Unconstructed
    /\ database.embed_failed
    /\ Returned
    /\ Consulted("semantic")
    /\ Consulted("secondary")
    /\ call.posted

----------------------------------------------------------------------------
(* Properties of UserMemory *)

Called(op) == last # NoOp /\ last.op = op

\* the file of the user the last handler was called for, before and after
Before == last.before[last.user_id]
After == files[last.user_id]

\* a file that loads, and holds every key of the model
Complete(file) ==
    /\ file.kind = "json"
    /\ get_user_profile(file, 0) = Val(file.data)

Mutators ==
    {"create_user_profile", "update_user_profile", "add_consultation_record",
     "add_daily_log_entry", "set_user_goal", "update_goal_status"}

\* C9: create_user_profile(k, name=B) for a key that has a record (as an
\* earlier create_user_profile(k, name=A) leaves it) returns true and leaves
\* the one record of k with name B, the created_at it had, and an updated_at
\* strictly greater than the one it had; no other file changes.
C9_CreateIsIdempotentUpsert ==
    (/\ Called("create_user_profile")
     /\ last.args.kwargs = <<Kw("name", Str("B"))>>
     /\ Complete(Before)) =>
        /\ last.ret = Val(TRUE)
        /\ Complete(After)
        /\ After.data.user_id = Str(last.user_id)
        /\ After.data.name = Str("B")
        /\ After.data.created_at = Before.data.created_at
        /\ IsoLess(Before.data.updated_at, After.data.updated_at)
        /\ \A u \in Users \ {last.user_id} : files[u] = last.before[u]

\* the second of two create calls for one key: the record it found was
\* written by a create call with name A in this run
C9_Witness ==
    /\ Called("create_user_profile")
    /\ last.args.kwargs = <<Kw("name", Str("B"))>>
    /\ Complete(Before)
    /\ Before.data.name = Str("A")
    /\ Before.data.created_at = Before.data.updated_at
    /\ IsoLess(isoformat(1), Before.data.created_at)
    /\ Before.data.consultations = List(<<>>)
    /\ last.ret = Val(TRUE)
    /\ After.data.name = Str("B")

\* what a record holds of the three collections
Items(file, collection) == get_user_profile(file, 0).val[collection].items

Kept(before, after) ==
    /\ \A i \in 1..Len(Items(before, "consultations")) :
           \E j \in 1..Len(Items(after, "consultations")) :
               Items(after, "consultations")[j] = Items(before, "consultations")[i]
    /\ \A i \in 1..Len(Items(before, "daily_logs")) :
           \A k \in 1..Len(Items(before, "daily_logs")[i].entries) :
               \E j \in 1..Len(Items(after, "daily_logs")) :
                   /\ Items(after, "daily_logs")[j].date = Items(before, "daily_logs")[i].date
                   /\ \E m \in 1..Len(Items(after, "daily_logs")[j].entries) :
                          Items(after, "daily_logs")[j].entries[m] =
                              Items(before, "daily_logs")[i].entries[k]
    /\ \A i \in 1..Len(Items(before, "goals")) :
           \E j \in 1..Len(Items(after, "goals")) :
               [Items(after, "goals")[j] EXCEPT !.status = Items(before, "goals")[i].status]
                   = Items(before, "goals")[i]

\* C10: whatever handler is called with whatever arguments, every
\* consultation, daily-log entry and goal the record held is still in it
\* with the same content, the status of a goal excepted.
C10_CollectionsAppendOnly ==
    (/\ last # NoOp
     /\ last.op \in Mutators
     /\ get_user_profile(Before, 0) # None) =>
        /\ get_user_profile(After, 0) # None
        /\ Kept(Before, After)

\* the handlers of C11 and the record they found
StampingHandlers ==
    {"update_user_profile", "add_consultation_record", "add_daily_log_entry",
     "set_user_goal", "update_goal_status"}

Stamped(file) == file.kind = "json" /\ "updated_at" \in DOMAIN file.data

\* C11: a handler that mutates a record and returns true persists an
\* updated_at greater than the one the file held before the call, also when
\* the caller passes an updated_at of its own to update_user_profile.
C11_UpdatedAtIncreases ==
    (/\ last # NoOp
     /\ last.op \in StampingHandlers
     /\ last.ret = Val(TRUE)
     /\ Stamped(Before)) =>
        /\ Stamped(After)
        /\ IsoLess(Before.data.updated_at, After.data.updated_at)
        /\ After.data.updated_at = isoformat(last.now)

\* update_user_profile is given an updated_at earlier than the persisted one
C11_Witness ==
    /\ Called("update_user_profile")
    /\ last.args.kwargs = <<Kw("updated_at", isoformat(0))>>
    /\ last.ret = Val(TRUE)
    /\ Stamped(Before)
    /\ IsoLess(isoformat(0), Before.data.updated_at)
    /\ After.data.updated_at # isoformat(0)

\* a file json.load rejects, or a document UserProfile.parse_obj rejects
\* whatever the defaults of the missing keys
Unloadable(file) ==
    \/ file.kind = "garbage"
    \/ /\ file.kind = "json"
       /\ \A now \in 0..MaxClock :
            UserProfile(
              setdefault(setdefault(setdefault(setdefault(setdefault(
                file.data, "consultations", List(<<>>)),
                "created_at", isoformat(now)),
                "updated_at", isoformat(now)),
                "daily_logs", List(<<>>)),
                "goals", List(<<>>))).kind = "Exception"

\* C12: get_user_profile on a file that cannot be parsed or fails validation
\* returns None, raises nothing, and leaves every file as it was.
C12_UnreadableFileIsAbsent ==
    (Called("get_user_profile") /\ Unloadable(Before)) =>
        /\ last.ret = None
        /\ files = last.before

\* both kinds of unreadable file have been read
C12_WitnessGarbage ==
    /\ Called("get_user_profile") /\ Before = Garbage /\ last.ret = None

C12_Witness ==
    /\ Called("get_user_profile")
    /\ Before.kind = "json" /\ Unloadable(Before)
    /\ last.ret = None
    /\ After = Before

\* the handlers that need a profile and return a boolean
ProfileWriters ==
    {"add_consultation_record", "add_daily_log_entry", "set_user_goal",
     "update_goal_status"}

\* C13: for a user with no profile (no file, or a file that does not load)
\* the four writing handlers return false and leave every file as it was, so
\* no file is created; get_daily_logs_for_period returns None.
C13_NoProfileNoWrite ==
    (last # NoOp /\ (Before = Absent \/ Unloadable(Before))) =>
        /\ last.op \in ProfileWriters => last.ret = Val(FALSE) /\ files = last.before
        /\ last.op = "get_daily_logs_for_period" => last.ret = None /\ files = last.before

\* each of the five handlers has been called for a user without a file
CalledWithoutFile(op) == Called(op) /\ Before = Absent /\ After = Absent

C13_Witness ==
    /\ Called("add_consultation_record")
    /\ Before = Absent
    /\ After = Absent
    /\ last.ret = Val(FALSE)
    /\ \E other \in Users : other # last.user_id /\ files[other].kind = "json"

\* the profile the handler last called loaded from the user's file
Loaded == get_user_profile(Before, last.now)

\* the fields of the profile model
ProfileFields == StrFields \cup NumFields \cup ListFields

\* C14: update_user_profile on an existing record either fails validation and
\* writes nothing, or persists a record that holds the fields of the profile
\* model and no other key, in which every field that no keyword names, other
\* than updated_at, keeps the value it was loaded with.
C14_UpdateChangesNamedFieldsOnly ==
    (Called("update_user_profile") /\ Loaded # None) =>
        /\ \A other \in Users \ {last.user_id} : files[other] = last.before[other]
        /\ last.ret \in {Val(TRUE), Val(FALSE)}
        /\ last.ret = Val(FALSE) => After = Before
        /\ last.ret = Val(TRUE) =>
              /\ After.kind = "json"
              /\ DOMAIN After.data = ProfileFields
              /\ \A key \in ProfileFields \ {"updated_at"} :
                    DictHas(last.args.kwargs, key) \/ After.data[key] = Loaded.val[key]

\* a keyword that is no field of the model was passed and the update succeeded
C14_Witness ==
    /\ Called("update_user_profile")
    /\ Loaded # None
    /\ last.args.kwargs = <<Kw("nickname", Str("B"))>>
    /\ last.ret = Val(TRUE)
    /\ "nickname" \notin DOMAIN After.data
    /\ After.data.name = Loaded.val.name
    /\ After.data.updated_at # Loaded.val.updated_at

\* a keyword that is a field of the model changed that field
C14_WitnessNamed ==
    /\ Called("update_user_profile")
    /\ Loaded # None
    /\ last.args.kwargs = <<Kw("name", Str("B"))>>
    /\ last.ret = Val(TRUE)
    /\ Loaded.val.name # Str("B")
    /\ After.data.name = Str("B")

\* the keys added to the record after its first version
LaterKeys == {"consultations", "daily_logs", "goals", "created_at", "updated_at"}

\* a record of an earlier version: the first version's fields as the model
\* declares them, and some later key missing
LegacyRecord(file) ==
    /\ file.kind = "json"
    /\ LaterKeys \ DOMAIN file.data # {}
    /\ \A k \in StrFields \ LaterKeys : HasType(file.data, k, "str")
    /\ \A k \in NumFields : HasType(file.data, k, "num")

\* C15: loading a record that lacks later-added keys yields a profile: each
\* missing collection is the empty list, a missing timestamp is the time of
\* the load, and every field the file holds is returned unchanged.
C15_LegacyRecordLoads ==
    (Called("get_user_profile") /\ LegacyRecord(Before)) =>
        /\ last.ret.kind = "Value"
        /\ DOMAIN last.ret.val = ProfileFields
        /\ \A k \in ListFields \ DOMAIN Before.data : last.ret.val[k] = List(<<>>)
        /\ \A k \in {"created_at", "updated_at"} \ DOMAIN Before.data :
              last.ret.val[k] = isoformat(last.now)
        /\ \A k \in DOMAIN Before.data : last.ret.val[k] = Before.data[k]
        /\ files = last.before

\* a record without any later key has been loaded
C15_Witness ==
    /\ Called("get_user_profile")
    /\ LegacyRecord(Before)
    /\ LaterKeys \cap DOMAIN Before.data = {}
    /\ last.ret.kind = "Value"
    /\ last.ret.val.goals = List(<<>>)

\* a record with consultations but without daily_logs and goals has been loaded
C15_WitnessEarlier ==
    /\ Called("get_user_profile")
    /\ LegacyRecord(Before)
    /\ "consultations" \in DOMAIN Before.data
    /\ last.ret.kind = "Value"
    /\ last.ret.val.consultations = Before.data.consultations
    /\ last.ret.val.daily_logs = List(<<>>)

\* a record that loads holds at most one DailyLog per date
OneLogPerDate(file) ==
    LET profile == get_user_profile(file, 0)
    IN  profile # None =>
            LET logs == profile.val.daily_logs.items
            IN  \A i, j \in 1..Len(logs) : logs[i].date = logs[j].date => i = j

\* seq without its i-th element
Without(seq, i) == SubSeq(seq, 1, i - 1) \o SubSeq(seq, i + 1, Len(seq))

\* the logs before and after a call of add_daily_log_entry that returned true
EntryAdded(old, new, date_str, entry) ==
    IF \E i \in 1..Len(old) : old[i].date = date_str
    THEN /\ Len(new) = Len(old)
         /\ \A i \in 1..Len(old) :
               new[i] = IF old[i].date = date_str
                        THEN [old[i] EXCEPT !.entries = Append(@, entry)]
                        ELSE old[i]
    ELSE /\ Len(new) = Len(old) + 1
         /\ \E i \in 1..Len(new) :
               /\ new[i] = [date |-> date_str, entries |-> <<entry>>]
               /\ Without(new, i) = old

\* C16: every record holds at most one DailyLog per date; a successful
\* add_daily_log_entry for a date that has a log appends the entry at the end
\* of that log's entries and changes no other log, and for a new date adds
\* exactly one log, which holds exactly that entry.
C16_OneLogPerDate ==
    /\ \A user_id \in Users : OneLogPerDate(files[user_id])
    /\ (Called("add_daily_log_entry") /\ last.ret = Val(TRUE)) =>
          EntryAdded(Loaded.val.daily_logs.items, Items(After, "daily_logs"),
                     last.args.date_str, DailyLogEntry(last.args.food_entry_data).val)

\* two successive calls for one date on a record that had no log for it
C16_Witness ==
    /\ Called("add_daily_log_entry")
    /\ last.ret = Val(TRUE)
    /\ \E i \in 1..Len(Items(After, "daily_logs")) :
          /\ Items(After, "daily_logs")[i].date = last.args.date_str
          /\ Len(Items(After, "daily_logs")[i].entries) = 2
          /\ Items(After, "daily_logs")[i].entries[1].food_name = Str("apple")
          /\ Items(After, "daily_logs")[i].entries[2].food_name = Str("apple")

\* a call for a new date, earlier than the date of the log the record holds
C16_WitnessNewDate ==
    /\ Called("add_daily_log_entry")
    /\ last.ret = Val(TRUE)
    /\ Len(Loaded.val.daily_logs.items) = 1
    /\ Len(Items(After, "daily_logs")) = 2
    /\ Items(After, "daily_logs")[1].date = last.args.date_str

\* positions of the logs whose date is in the period asked for
InPeriod(logs) ==
    {i \in 1..Len(logs) :
        /\ last.args.start_date_str <= logs[i].date
        /\ logs[i].date <= last.args.end_date_str}

\* C17: get_daily_logs_for_period on a user with a profile returns the logs
\* whose date lies between start and end, both included, each once, in
\* ascending order of date, and changes no file.
C17_LogsOfPeriodAscending ==
    (Called("get_daily_logs_for_period") /\ Loaded # None) =>
        LET logs == Loaded.val.daily_logs.items
            wanted == InPeriod(logs)
        IN  /\ last.ret.kind = "Value"
            /\ Len(last.ret.val) = Cardinality(wanted)
            /\ \A i \in wanted : \E j \in 1..Len(last.ret.val) : last.ret.val[j] = logs[i]
            /\ \A j \in 1..Len(last.ret.val) : \E i \in wanted : last.ret.val[j] = logs[i]
            /\ \A i, j \in 1..Len(last.ret.val) :
                  i < j => last.ret.val[i].date < last.ret.val[j].date
            /\ files = last.before

\* the record holds two logs, the one of the earlier date created last, and
\* the period asked for ends on the later date and starts on the earlier one
C17_Witness ==
    /\ Called("get_daily_logs_for_period")
    /\ Loaded # None
    /\ Len(Loaded.val.daily_logs.items) = 2
    /\ Loaded.val.daily_logs.items[1].entries[1].food_name = Str("apple")
    /\ Loaded.val.daily_logs.items[2].entries[1].food_name = Str("rice")
    /\ last.args.start_date_str = Loaded.val.daily_logs.items[1].date
    /\ last.args.end_date_str = Loaded.val.daily_logs.items[2].date
    /\ Len(last.ret.val) = 2

\* a period that holds one of the two logs only
C17_WitnessPart ==
    /\ Called("get_daily_logs_for_period")
    /\ Loaded # None
    /\ Len(Loaded.val.daily_logs.items) = 2
    /\ last.args.start_date_str = last.args.end_date_str
    /\ Len(last.ret.val) = 1

\* positions of the goals of the loaded record that have the id asked for
GoalsWithId ==
    {i \in 1..Len(Loaded.val.goals.items) :
        Loaded.val.goals.items[i].goal_id = last.args.goal_id}

\* C18: update_goal_status returns false and writes nothing when no goal has
\* the id; otherwise the persisted record differs from the one loaded in
\* updated_at and in the status of one goal that has the id, and in nothing
\* else: that goal's other fields, the other goals, the consultations, the
\* daily logs and the files of other users are as before.
C18_OnlyStatusChanges ==
    (Called("update_goal_status") /\ Loaded # None) =>
        /\ GoalsWithId = {} => last.ret = Val(FALSE) /\ files = last.before
        /\ GoalsWithId # {} =>
              /\ last.ret = Val(TRUE)
              /\ \A other \in Users \ {last.user_id} : files[other] = last.before[other]
              /\ After.kind = "json"
              /\ \E i \in GoalsWithId :
                    After.data =
                        [Loaded.val EXCEPT
                            !.goals = List([@.items EXCEPT ![i].status =
                                                               last.args.new_status]),
                            !.updated_at = After.data.updated_at]

\* the status of one of two goals went from active to the status asked for
C18_Witness ==
    /\ Called("update_goal_status")
    /\ last.ret = Val(TRUE)
    /\ Len(Loaded.val.goals.items) = 2
    /\ \E i \in GoalsWithId :
          /\ Loaded.val.goals.items[i].status = Str("active")
          /\ After.data.goals.items[i].status = last.args.new_status
    /\ \E j \in 1..2 : After.data.goals.items[j].status = Str("active")
    /\ Len(After.data.consultations.items) = 1

\* the id asked for is the id of no goal of a record that has a goal
C18_WitnessNoGoal ==
    /\ Called("update_goal_status")
    /\ Loaded # None
    /\ Len(Loaded.val.goals.items) > 0
    /\ GoalsWithId = {}
    /\ last.ret = Val(FALSE)

\* C19: a turn of chat that succeeds for a user who had no file leaves a
\* record for that user, named after the user id, that holds the consultation
\* of that turn and no other.
C19_FirstTurnIsRecorded ==
    (Called("chat") /\ Before = Absent /\ last.ret # Val(ChatErrorMessage)) =>
        /\ get_user_profile(After, 0) # None
        /\ Items(After, "consultations") # <<>>
        /\ Len(Items(After, "consultations")) = 1
        /\ Items(After, "consultations")[1].question = last.args.message
        /\ After.data.name = Str(last.user_id)

\* what the code does instead: the reply is returned and no file exists
C19_FirstTurnLeavesNoRecord ==
    /\ Called("chat")
    /\ Before = Absent
    /\ last.ret = Val(Str("a"))
    /\ "context" \notin DOMAIN last.args.prompt
    /\ After = Absent

----------------------------------------------------------------------------
(* Properties of concurrent handlers *)

AllDone == \A p \in Procs : procs[p].pc = "done"

ReturnedTrue(p) == procs[p].pc = "done" /\ procs[p].ret

\* the consultations of a file that process p recorded
RecordedBy(file, p) ==
    {i \in 1..Len(Items(file, "consultations")) :
        Items(file, "consultations")[i].question = Str(p)}

\* C20: when the two processes have returned, the file of every user written
\* to is the complete document of the process that wrote it last.
C20_LastWriterWins ==
    \A user_id \in Users :
        (AllDone /\ lastWriter[user_id] # NoWriter) =>
            files[user_id] = JsonFile(lastWriter[user_id].doc)

\* both calls returned true for one user and the file, which loads, holds the
\* record of one of them only
C20_LostUpdate ==
    /\ \A p \in Procs : ReturnedTrue(p) /\ procs[p].user_id = "u1"
    /\ get_user_profile(files["u1"], 0) # None
    /\ \E p, q \in Procs :
          /\ RecordedBy(files["u1"], p) # {}
          /\ RecordedBy(files["u1"], q) = {}

\* both calls returned true for one user and the file is the longer document
\* overwritten from its start by the shorter one: it does not load
C20_TornFile ==
    /\ \A p \in Procs : ReturnedTrue(p) /\ procs[p].user_id = "u1"
    /\ files["u1"] = Garbage

\* a step of a process changes no file but the one of the user it was called for
C20_OtherKeysUntouched ==
    [][\A user_id \in Users :
          files'[user_id] # files[user_id] =>
              \E p \in Procs : procs[p].pc # "idle" /\ procs[p].user_id = user_id
                               /\ procs'[p] # procs[p]]_vars

----------------------------------------------------------------------------
(* Properties of the network calls *)

\* C21: a call of _run that waits for a provider returns in the end, also
\* when the provider never answers.
C21_RunTerminates == (call.kind = "waiting") ~> (call.kind = "call")

\* the call set no timeout on the request it is blocked in
C21_BlockedWithoutTimeout ==
    call.kind = "waiting" /\ call.provider = "usda" /\ call.timeout = None

\* every request to the secondary provider carries a timeout
C21_SecondaryHasTimeout ==
    (call.kind = "waiting" /\ call.provider = "nutritionix") => call.timeout # None

----------------------------------------------------------------------------
(* Properties of UserMemory: delegation, validation, goal ids *)

CreateOrUpdateCalled == Called("create_user_profile") \/ Called("update_user_profile")

\* C28: create_user_profile and update_user_profile return a boolean
\* whatever the file of the user is: absent, valid, or present and not
\* loadable; the delegation between the two comes to an end.
C28_CreateAndUpdateReturnBoolean ==
    CreateOrUpdateCalled => last.ret \in {Val(TRUE), Val(FALSE)}

\* what holds of the code: a boolean is returned when the file is absent or
\* loadable; on a file that is present and not loadable the delegation is
\* ended by the interpreter
C28_NoReturnOnUnloadableFile ==
    CreateOrUpdateCalled =>
        IF Before.kind # "absent" /\ get_user_profile(Before, last.now) = None
        THEN last.ret = Exc("RecursionError") /\ After = Before
        ELSE last.ret \in {Val(TRUE), Val(FALSE)}

\* the call carries new data that does not validate: a keyword of the wrong
\* type for a field of the profile, an entry DailyLogEntry rejects, goal data
\* Goal rejects whatever the goal_id
InvalidData ==
    \/ /\ Called("update_user_profile")
       /\ DictHas(last.args.kwargs, "age")
       /\ DictGet(last.args.kwargs, "age", None).t # "num"
    \/ /\ Called("add_daily_log_entry")
       /\ DailyLogEntry(last.args.food_entry_data) = ValidationError
    \/ /\ Called("set_user_goal")
       /\ Goal(SetKey(last.args.goal_data, "goal_id", Str(<<>>))) = ValidationError

\* C29: when the new data fails validation the operation returns False and
\* the persisted record is the one before the call, updated_at included.
C29_InvalidDataChangesNothing ==
    InvalidData =>
        /\ last.ret = Val(FALSE)
        /\ After = Before
        /\ files = last.before

\* what holds of the code: the data is validated, and the call answered
\* with False, when the user's file is absent or loads; on a file that is
\* present and does not load update_user_profile validates nothing
C29_ValidatedDataChangesNothing ==
    (/\ InvalidData
     /\ Before = Absent \/ get_user_profile(Before, last.now) # None) =>
        /\ last.ret = Val(FALSE)
        /\ After = Before
        /\ files = last.before

C29_Witness ==
    /\ InvalidData
    /\ Called("add_daily_log_entry")
    /\ Before = JsonFile(ExistingData(last.user_id))
    /\ last.now > 1
    /\ last.ret = Val(FALSE)

C29_WitnessUpdate ==
    /\ InvalidData
    /\ Called("update_user_profile")
    /\ get_user_profile(Before, last.now) # None
    /\ last.ret = Val(FALSE)

C29_WitnessGoal ==
    /\ InvalidData
    /\ Called("set_user_goal")
    /\ get_user_profile(Before, last.now) # None
    /\ last.ret = Val(FALSE)

\* the goals of a user's persisted record
GoalsOf(user_id) ==
    LET profile == get_user_profile(files[user_id], clock)
    IN  IF profile = None THEN <<>> ELSE profile.val.goals.items

\* C30: the goal_ids of one user's record are pairwise distinct after any
\* sequence of set_user_goal calls, two calls within one clock second
\* included, so that a goal_id names the one goal created with it.
C30_GoalIdsDistinct ==
    \A user_id \in Users :
        LET goals == GoalsOf(user_id)
        IN  \A i, j \in 1..Len(goals) :
                goals[i].goal_id = goals[j].goal_id => i = j

\* what holds of the code: the goal_id is made of the user and the clock
\* second of the call, and every earlier goal of the record is kept
C30_OneIdPerSecond ==
    (Called("set_user_goal") /\ last.ret = Val(TRUE)) =>
        LET goals == GoalsOf(last.user_id)
            earlier == get_user_profile(Before, last.now).val.goals.items
        IN  /\ Len(goals) = Len(earlier) + 1
            /\ SubSeq(goals, 1, Len(earlier)) = earlier
            /\ goals[Len(goals)].goal_id
                   = GoalId(last.user_id, strftime_seconds(last.now))

====
